---- MODULE Spec2Model ----
(***************************************************************************)
(* A model of the probability / parlay engine of nba-parlay-analyzer.     *)
(*                                                                         *)
(* Numbers are fixed-point integers:                                       *)
(*   stat values, means, standard deviations, lines : thousandths (V)      *)
(*   multiplicative factors (location)              : thousandths          *)
(*   defense factor                                 : ten-thousandths      *)
(*   probabilities and edges                        : ten-thousandths (P)  *)
(*   z-scores                                       : ten-thousandths      *)
(* Python's float NaN and None are the two sentinels NaN and NoneVal: no   *)
(* arithmetic is ever applied to them, and every comparison with NaN is    *)
(* false, as in IEEE-754.                                                  *)
(***************************************************************************)
EXTENDS Integers, Sequences, FiniteSets, TLC

VARIABLES
    conn,            \* EnhancedStatsCalculator.conn: TRUE when the pool gave a connection
    gamelogs_cache,  \* EnhancedStatsCalculator._gamelogs_cache: not loaded, or the loaded rows
    call,            \* the analyzer call in progress / last returned: its kind, input, position
    analyzed_legs,   \* analyze_parlay's local list of leg results
    ret,             \* the value the last call returned
    probe,           \* the last direct call of a pure function of the model, with its result
    usage,           \* UsageLimiter's storage_dir: file name -> the dict the JSON file holds
    now,             \* the wall clock: the day and the position on the day's track
    request,         \* the last call of the limiter or of an API handler, with its outcome
    uses,            \* per user, the time of the last recorded use (None before the first)
    threads          \* per thread, the leg evaluation it runs and where it stands

vars == <<conn, gamelogs_cache, call, analyzed_legs, ret, probe, usage, now, request, uses, threads>>

analyzerVars == <<conn, gamelogs_cache, call, analyzed_legs, ret, probe>>
limiterVars == <<usage, now, request, uses>>
threadVars == <<threads>>

-----------------------------------------------------------------------------
(* Sentinels and scales *)

NaN == 999999999
NoneVal == 999999998

V == 1000
P == 10000

\* A Python assignment evaluates its right-hand side once and binds the value:
\* Bind(e, F) is F applied to the value of e.
Bind(e, F(_)) == CHOOSE r \in {F(x) : x \in {e}} : TRUE

Abs(x) == IF x < 0 THEN -x ELSE x

\* round(x / d) to the nearest integer, ties to even (Python's round), d > 0
RoundDiv(x, d) ==
    LET q == x \div d
        r == x % d
    IN  IF 2 * r < d THEN q
        ELSE IF 2 * r > d THEN q + 1
        ELSE IF q % 2 = 0 THEN q ELSE q + 1

\* Python's builtin min(a, b) and max(a, b) on floats: b replaces a only when the
\* comparison b < a (b > a) is true, and it is false whenever b is NaN.
PyMin(a, b) == IF b # NaN /\ a # NaN /\ b < a THEN b ELSE a
PyMax(a, b) == IF b # NaN /\ a # NaN /\ b > a THEN b ELSE a

-----------------------------------------------------------------------------
(* scipy.stats.norm.cdf, tabulated at steps of 0.125 in z and interpolated     *)
(* linearly in between; values in ten-thousandths, rounded to 4 decimals.     *)

PhiTable ==
    << 5000, 5497, 5987, 6462, 6915, 7340, 7734, 8092, 8413, 8697, 8944,
       9154, 9332, 9479, 9599, 9696, 9772, 9832, 9878, 9912, 9938, 9957,
       9970, 9980, 9987, 9991, 9994, 9996, 9998, 9999, 9999, 9999, 10000 >>

ZStep == 1250
ZMax == 40000

PhiPos(z) ==
    IF z >= ZMax THEN P
    ELSE LET k == z \div ZStep
             r == z % ZStep
             lo == PhiTable[k + 1]
             hi == PhiTable[k + 2]
         IN  lo + RoundDiv((hi - lo) * r, ZStep)

norm_cdf(z) == IF z >= 0 THEN PhiPos(z) ELSE P - PhiPos(-z)

\* z = (line - mean) / std in ten-thousandths; beyond five standard deviations
\* the quotient is saturated (norm_cdf is already 0 or 1 to 4 decimals there).
ZScore(line, mean, std) ==
    LET d == line - mean
    IN  IF Abs(d) >= 5 * std THEN (IF d >= 0 THEN 5 * P ELSE -(5 * P))
        ELSE IF d >= 0 THEN RoundDiv(d * P, std)
        ELSE -RoundDiv((-d) * P, std)

-----------------------------------------------------------------------------
(* ProbabilityModel.calculate_probability_normal *)

CV_PERMILLE == 300      \* the 0.3 of "mean * 0.3"
STD_FLOOR == 100        \* 0.1
PROB_MIN == 100         \* 0.01
PROB_MAX == 9900        \* 0.99

Times03(mean) == (mean * CV_PERMILLE) \div V

\* lines 51-56: the std the z-score is divided by
StdDivisor(mean, std) ==
    LET s1 == IF std = NoneVal \/ (std # NaN /\ std = 0) THEN Times03(mean) ELSE std
    IN  IF s1 # NaN /\ s1 < STD_FLOOR THEN STD_FLOOR ELSE s1

\* A slip in line 70: the probability returned without the clamp
calculate_probability_normal_unclamped(mean, std, line, over) ==
    LET s == StdDivisor(mean, std)
        z == IF s = NaN THEN NaN ELSE ZScore(line, mean, s)
    IN  IF z = NaN THEN NaN ELSE IF over THEN P - norm_cdf(z) ELSE norm_cdf(z)

calculate_probability_normal(mean, std, line, over) ==
    LET s == StdDivisor(mean, std)
        z == IF s = NaN THEN NaN ELSE ZScore(line, mean, s)
        prob == IF z = NaN THEN NaN
                ELSE IF over THEN P - norm_cdf(z) ELSE norm_cdf(z)
    IN  PyMax(PROB_MIN, PyMin(PROB_MAX, prob))

-----------------------------------------------------------------------------
(* team_stats.py *)

NoOpponent == "<None>"

\* Python's None where a location string is expected: a leg dict that carries
\* the key 'location' with no value
NoLocation == "<None>"

\* str.upper() on the team codes the model passes
Upper(s) ==
    CASE s = "bos" -> "BOS"
      [] s = "was" -> "WAS"
      [] s = "over" -> "OVER"
      [] s = "under" -> "UNDER"
      [] s = "Over" -> "OVER"
      [] OTHER -> s

\* A slip in line 148 of get_player_stats: the names compared as given
Lower_identity(s) == s

\* str.lower() on the strings the model passes
Lower(s) ==
    CASE s = "Stephen Curry" -> "stephen curry"
      [] s = "STEPHEN CURRY" -> "stephen curry"
      [] s = "sTePhEn CuRrY" -> "stephen curry"
      [] s = "Bench Player" -> "bench player"
      [] s = "Luka Doncic" -> "luka doncic"
      [] s = "Nikola Jokic" -> "nikola jokic"
      [] s = "Home" -> "home"
      [] s = "OVER" -> "over"
      [] s = "Over" -> "over"
      [] s = "UNDER" -> "under"
      [] OTHER -> s

\* defensive ratings in tenths of a point per 100 possessions
TEAM_DEFENSIVE_RATINGS == [BOS |-> 1106, WAS |-> 1195, LAL |-> 1156]
LEAGUE_AVERAGE_DEF_RATING == 1150

HOME_COURT_FACTOR == 1100
AWAY_COURT_FACTOR == 950
NEUTRAL_COURT_FACTOR == 1000

get_team_defense(team_abbr) ==
    IF Upper(team_abbr) \in DOMAIN TEAM_DEFENSIVE_RATINGS
    THEN TEAM_DEFENSIVE_RATINGS[Upper(team_abbr)]
    ELSE LEAGUE_AVERAGE_DEF_RATING

get_location_factor(location) ==
    CASE Lower(location) = "home" -> HOME_COURT_FACTOR
      [] Lower(location) = "away" -> AWAY_COURT_FACTOR
      [] Lower(location) = "neutral" -> NEUTRAL_COURT_FACTOR
      [] OTHER -> NEUTRAL_COURT_FACTOR

DEF_MIN == 8500
DEF_MAX == 11500

\* 1 - (league - rating) / 200, in ten-thousandths: a tenth of a rating point is 5
calculate_defense_factor(opponent_def_rating) ==
    LET factor == P - (LEAGUE_AVERAGE_DEF_RATING - opponent_def_rating) * 5
    IN  PyMax(DEF_MIN, PyMin(DEF_MAX, factor))

get_defense_impact_description(opponent_abbr) ==
    LET rating == get_team_defense(opponent_abbr)
        factor == calculate_defense_factor(rating)
    IN  IF factor < 9500 THEN [text |-> "Elite defense - Harder matchup", rating |-> rating]
        ELSE IF factor > 10500 THEN [text |-> "Weak defense - Easier matchup", rating |-> rating]
        ELSE [text |-> "Average defense - Neutral matchup", rating |-> rating]

-----------------------------------------------------------------------------
(* ProbabilityModel: adjustments, confidence intervals, predict_with_confidence *)

\* A Python dict is a function from its keys; the function with no key stands for
\* the empty dict and for None alike (the code only ever tests their truthiness).
EmptyDict == << >>

Has(d, k) == k \in DOMAIN d

\* Python truthiness of a dict or None
Truthy(d) == DOMAIN d # {}

apply_matchup_adjustments(base_mean, adjustments) ==
    IF ~Truthy(adjustments) THEN base_mean
    ELSE LET a1 == IF Has(adjustments, "location")
                   THEN RoundDiv(base_mean * adjustments["location"], V)
                   ELSE base_mean
             a2 == IF Has(adjustments, "defense") /\ Has(adjustments["defense"], "factor")
                   THEN RoundDiv(a1 * adjustments["defense"]["factor"], P)
                   ELSE a1
             a3 == IF Has(adjustments, "pace")
                   THEN RoundDiv(a2 * (IF Has(adjustments["pace"], "factor")
                                       THEN adjustments["pace"]["factor"] ELSE V), V)
                   ELSE a2
         IN  a3

Z80 == 12816     \* norm.ppf(0.90) = 1.2816
Z95 == 19600     \* norm.ppf(0.975) = 1.9600

\* bounds in thousandths; ZStar is the z-score of the confidence level
calculate_confidence_interval(mean, std, ZStar) ==
    LET margin == RoundDiv(ZStar * std, P)
    IN  << PyMax(0, mean - margin), mean + margin >>

EDGE_THRESHOLD == 500     \* 5% edge

_make_recommendation(edge_over, edge_under) ==
    IF edge_over >= EDGE_THRESHOLD THEN "OVER"
    ELSE IF edge_under >= EDGE_THRESHOLD THEN "UNDER"
    ELSE "PASS (no edge)"

\* the percentage of the f-string "{(factor-1)*100:.0f}", from a factor in 1/unit
Pct(factor, unit) == RoundDiv(Abs(factor - unit) * 100, unit) * (IF factor < unit THEN -1 ELSE 1)

_summarize_adjustments(original, adjusted, adjustments) ==
    IF ~Truthy(adjustments) \/ Abs(original - adjusted) < 100
    THEN [total_change |-> 0, factors |-> << >>]
    ELSE LET loc == IF Has(adjustments, "location")
                    THEN (IF adjustments["location"] > V
                          THEN << [text |-> "Home court boost",
                                   pct |-> Pct(adjustments["location"], V)] >>
                          ELSE IF adjustments["location"] < V
                          THEN << [text |-> "Road game penalty",
                                   pct |-> Pct(adjustments["location"], V)] >>
                          ELSE << >>)
                    ELSE << >>
             def == IF Has(adjustments, "defense") /\ Has(adjustments["defense"], "factor")
                    THEN (LET f == adjustments["defense"]["factor"]
                              opp == IF Has(adjustments["defense"], "opponent")
                                     THEN adjustments["defense"]["opponent"] ELSE "Unknown"
                          IN  IF f < 9800
                              THEN << [text |-> "elite defense", opp |-> opp, pct |-> Pct(f, P)] >>
                              ELSE IF f > 10200
                              THEN << [text |-> "weak defense", opp |-> opp, pct |-> Pct(f, P)] >>
                              ELSE << >>)
                    ELSE << >>
         IN  [total_change |-> RoundDiv(adjusted - original, 100),
              factors |-> loc \o def,
              adjusted_from |-> RoundDiv(original, 100),
              adjusted_to |-> RoundDiv(adjusted, 100)]

\* line 169: "variance if variance and variance > 0 else player_avg * 0.3"
predict_base_std(player_avg, variance) ==
    IF variance # NoneVal /\ variance # NaN /\ variance # 0 /\ variance > 0
    THEN variance
    ELSE Times03(player_avg)

\* lines 172-174: keep the coefficient of variation when the mean changed
predict_std(player_avg, variance, adjustments) ==
    LET adjusted_mean == apply_matchup_adjustments(player_avg, adjustments)
        std == predict_base_std(player_avg, variance)
    IN  IF Truthy(adjustments) /\ adjusted_mean # player_avg
        THEN (IF player_avg > 0 THEN RoundDiv(adjusted_mean * std, player_avg) ELSE std)
        ELSE std

predict_with_confidence(player_avg, line, variance, adjustments) ==
    Bind(apply_matchup_adjustments(player_avg, adjustments), LAMBDA adjusted_mean :
    Bind(predict_std(player_avg, variance, adjustments), LAMBDA std :
    Bind(calculate_probability_normal(adjusted_mean, std, line, TRUE), LAMBDA prob_over :
    LET prob_under == P - prob_over
        ci_80 == calculate_confidence_interval(adjusted_mean, std, Z80)
        ci_95 == calculate_confidence_interval(adjusted_mean, std, Z95)
        edge_over == prob_over - P \div 2
        edge_under == prob_under - P \div 2
    IN  [line |-> line,
         season_avg |-> player_avg,
         adjusted_mean |-> RoundDiv(adjusted_mean, 10),
         standard_deviation |-> RoundDiv(std, 10),
         prob_over |-> prob_over,
         prob_under |-> prob_under,
         fair_line |-> RoundDiv(adjusted_mean, 100),
         edge_over |-> edge_over,
         edge_under |-> edge_under,
         confidence_80 |-> << RoundDiv(ci_80[1], 100), RoundDiv(ci_80[2], 100) >>,
         confidence_95 |-> << RoundDiv(ci_95[1], 100), RoundDiv(ci_95[2], 100) >>,
         recommendation |-> _make_recommendation(edge_over, edge_under),
         adjustments_summary |-> _summarize_adjustments(player_avg, adjusted_mean, adjustments)])))

-----------------------------------------------------------------------------
(* EnhancedStatsCalculator *)

\* The rows of game_logs as the query of _load_from_database returns them:
\* pts is never NULL, rows are ordered by player_name, then date descending.
\* Counting stats are whole numbers; NoneVal is SQL NULL (NaN after to_numeric).
GAME_LOGS ==
    << [player_name |-> "Luka Doncic", date |-> 3, opponent |-> "BOS",
        pts |-> 33, ast |-> 9, trb |-> 8, three_p |-> 3, stl |-> 1, blk |-> 0, tov |-> 4],
       [player_name |-> "Nikola Jokic", date |-> 5, opponent |-> "LAL",
        pts |-> 26, ast |-> 10, trb |-> 12, three_p |-> 1, stl |-> 2, blk |-> 1,
        tov |-> NoneVal],
       [player_name |-> "Nikola Jokic", date |-> 2, opponent |-> "WAS",
        pts |-> 20, ast |-> 8, trb |-> 14, three_p |-> 2, stl |-> 0, blk |-> 1,
        tov |-> NoneVal],
       [player_name |-> "Stephen Curry", date |-> 6, opponent |-> "LAL",
        pts |-> 30, ast |-> 6, trb |-> 5, three_p |-> 7, stl |-> 1, blk |-> 0, tov |-> 3],
       [player_name |-> "Stephen Curry", date |-> 4, opponent |-> "BOS",
        pts |-> 24, ast |-> 5, trb |-> 5, three_p |-> 4, stl |-> 0, blk |-> 0, tov |-> 3],
       [player_name |-> "Stephen Curry", date |-> 1, opponent |-> "WAS",
        pts |-> 18, ast |-> 4, trb |-> 5, three_p |-> 1, stl |-> 2, blk |-> 1, tov |-> 3] >>

\* _load_from_database: without a connection the frame is empty
load_from_database(c) == IF c THEN GAME_LOGS ELSE << >>

\* A cache that hands out a frame only once: after the first access it is empty
gamelogs_consumed(cache, c) == IF cache.loaded THEN << >> ELSE load_from_database(c)

\* the gamelogs property: the cached frame, loaded on first access
gamelogs(cache, c) == IF cache.loaded THEN cache.rows ELSE load_from_database(c)

RECURSIVE ISqrtBetween(_, _, _)
ISqrtBetween(v, lo, hi) ==
    IF lo >= hi THEN lo
    ELSE LET mid == (lo + hi + 1) \div 2
         IN  IF mid * mid <= v THEN ISqrtBetween(v, mid, hi)
             ELSE ISqrtBetween(v, lo, mid - 1)

ISqrt(v) == ISqrtBetween(v, 0, 46340)

RECURSIVE SumSeq(_)
SumSeq(s) == IF s = << >> THEN 0 ELSE Head(s) + SumSeq(Tail(s))

RECURSIVE MinSeq(_)
MinSeq(s) == IF Len(s) = 1 THEN s[1] ELSE PyMin(s[1], MinSeq(Tail(s)))

RECURSIVE MaxSeq(_)
MaxSeq(s) == IF Len(s) = 1 THEN s[1] ELSE PyMax(s[1], MaxSeq(Tail(s)))

\* pandas Series.mean(), in thousandths, of whole-number values
SeriesMean(values) == RoundDiv(SumSeq(values) * V, Len(values))

\* pandas Series.std(): the sample standard deviation (ddof = 1), NaN for one value
SeriesStd(values) ==
    IF Len(values) < 2 THEN NaN
    ELSE LET m == SeriesMean(values)
             sq == [i \in 1..Len(values) |-> (values[i] * V - m) * (values[i] * V - m)]
         IN  ISqrt(SumSeq(sq) \div (Len(values) - 1))

SeriesMedian(values) ==
    LET sorted == SortSeq(values, LAMBDA a, b : a < b)
        n == Len(values)
    IN  IF n % 2 = 1 THEN sorted[(n + 1) \div 2] * V
        ELSE RoundDiv((sorted[n \div 2] + sorted[n \div 2 + 1]) * V, 2)

\* stat_columns of get_player_stats: result key prefix -> column
STAT_COLUMNS ==
    [points |-> "pts", assists |-> "ast", rebounds |-> "trb", threes |-> "three_p",
     steals |-> "stl", blocks |-> "blk", turnovers |-> "tov"]

\* player_games[col].dropna()
Column(player_games, col) ==
    LET all == [i \in 1..Len(player_games) |-> player_games[i][col]]
    IN  SelectSeq(all, LAMBDA x : x # NoneVal)

\* the dict key f"{stat_key}_{suffix}"
Key(stat_key, suffix) == << stat_key, suffix >>

StatFields == {"mean", "std", "median", "min", "max"}

\* Python's head(n) for n >= 0
HeadN(rows, n) == SubSeq(rows, 1, IF n < Len(rows) THEN n ELSE Len(rows))

\* get_player_stats: rows is self.gamelogs; last_n_games is NoneVal or a number
get_player_stats(rows, player_name, last_n_games) ==
    IF rows = << >> THEN EmptyDict
    ELSE LET matching == SelectSeq(rows,
                             LAMBDA r : Lower(r.player_name) = Lower(player_name))
         IN  IF matching = << >> THEN EmptyDict
             ELSE LET player_games ==
                          IF last_n_games # NoneVal /\ last_n_games # 0
                          THEN HeadN(matching, last_n_games)
                          ELSE matching
                      present == {sn \in DOMAIN STAT_COLUMNS :
                                     Column(player_games, STAT_COLUMNS[sn]) # << >>}
                      keys == {Key("player_name", ""), Key("games_analyzed", "")}
                              \cup {Key(sn, f) : sn \in present, f \in StatFields}
                  IN  [k \in keys |->
                         IF k = Key("player_name", "") THEN player_name
                         ELSE IF k = Key("games_analyzed", "") THEN Len(player_games)
                         ELSE LET values == Column(player_games, STAT_COLUMNS[k[1]])
                              IN  CASE k[2] = "mean" -> SeriesMean(values)
                                    [] k[2] = "std" -> SeriesStd(values)
                                    [] k[2] = "median" -> SeriesMedian(values)
                                    [] k[2] = "min" -> MinSeq(values) * V
                                    [] k[2] = "max" -> MaxSeq(values) * V]

\* game_logs rows of a player who played and recorded nothing
BENCH_LOGS ==
    << [player_name |-> "Bench Player", date |-> 4, opponent |-> "BOS",
        pts |-> 0, ast |-> 0, trb |-> 0, three_p |-> 0, stl |-> 0, blk |-> 0, tov |-> 0],
       [player_name |-> "Bench Player", date |-> 1, opponent |-> "LAL",
        pts |-> 0, ast |-> 0, trb |-> 0, three_p |-> 0, stl |-> 0, blk |-> 0, tov |-> 0] >>

-----------------------------------------------------------------------------
(* StatsCalculator *)

\* rows of data/players_2024_25.csv: season averages in thousandths, NoneVal is NaN
PLAYERS_CSV ==
    << [Player |-> "Stephen Curry", PTS |-> 24000, AST |-> 5000, TRB |-> 5000],
       [Player |-> "Nikola Jokic", PTS |-> 23000, AST |-> NoneVal, TRB |-> 13000] >>

\* float(row[col]) if pd.notna(row[col]) else 0
NotNaOrZero(x) == IF x # NoneVal THEN x ELSE 0

\* lines 32-78, the keys the composites are built from; Player is compared with ==
get_player_season_avg(csv, player_name) ==
    LET player_data == SelectSeq(csv, LAMBDA r : r.Player = player_name)
    IN  IF player_data = << >> THEN EmptyDict
        ELSE LET row == player_data[1]
             IN  [player |-> player_name,
                  points |-> NotNaOrZero(row.PTS),
                  assists |-> NotNaOrZero(row.AST),
                  rebounds |-> NotNaOrZero(row.TRB),
                  points_assists |->
                      IF row.PTS # NoneVal /\ row.AST # NoneVal
                      THEN row.PTS + row.AST ELSE 0,
                  points_rebounds_assists |->
                      IF row.PTS # NoneVal /\ row.TRB # NoneVal /\ row.AST # NoneVal
                      THEN row.PTS + row.TRB + row.AST ELSE 0]

-----------------------------------------------------------------------------
(* ParlayAnalyzer.analyze_leg *)

\* stat_map of analyze_leg
STAT_MAP ==
    [points |-> "pts", assists |-> "ast", rebounds |-> "trb", three_p |-> "three_p",
     steals |-> "stl", blocks |-> "blk", points_assists |-> "pa",
     points_rebounds_assists |-> "pra"]

\* stat_map.get(stat_type, stat_type)
StatKey(stat_type) ==
    IF stat_type \in DOMAIN STAT_MAP THEN STAT_MAP[stat_type] ELSE stat_type

HIT_ABOVE == 5500     \* 0.55
MISS_BELOW == 4500    \* 0.45

\* line 137
LegRecommendation(hit_probability) ==
    IF hit_probability > HIT_ABOVE THEN "HIT"
    ELSE IF hit_probability < MISS_BELOW THEN "MISS"
    ELSE "TOSS-UP"

\* lines 82-102: the adjustments dict
BuildAdjustments(location, opponent) ==
    LET location_factor == get_location_factor(location)
        loc == IF location_factor # NEUTRAL_COURT_FACTOR
               THEN [location |-> location_factor] ELSE EmptyDict
        def == IF opponent # NoOpponent
               THEN [defense |->
                        [opponent |-> opponent,
                         rating |-> get_team_defense(opponent),
                         factor |-> calculate_defense_factor(get_team_defense(opponent)),
                         description |-> get_defense_impact_description(opponent)]]
               ELSE EmptyDict
    IN  loc @@ def

\* round(x, 2) of a value in thousandths that may be NaN
Round2(x) == IF x = NaN THEN NaN ELSE RoundDiv(x, 10)

analyze_leg(rows, player_name, stat_type, line, bet_type, location, opponent) ==
    Bind(get_player_stats(rows, player_name, NoneVal), LAMBDA season_stats :
    LET stat_key == StatKey(stat_type)
        mean_key == Key(stat_key, "mean")
        std_key == Key(stat_key, "std")
    IN  IF ~Truthy(season_stats)
        THEN [error |-> [msg |-> "Player not found", arg |-> player_name]]
        ELSE IF ~Has(season_stats, mean_key)
        THEN [error |-> [msg |-> "Invalid stat type", arg |-> stat_type]]
        ELSE
        Bind(season_stats[mean_key], LAMBDA player_stat_avg :
        Bind(IF Has(season_stats, std_key) THEN season_stats[std_key]
             ELSE Times03(player_stat_avg), LAMBDA player_stat_std :
        \* line 82: get_location_factor calls location.lower(); on None that raises
        IF location = NoLocation THEN [raised |-> "AttributeError"] ELSE
        Bind(BuildAdjustments(location, opponent), LAMBDA adjustments :
        Bind(predict_with_confidence(player_stat_avg, line, player_stat_std,
                                     adjustments), LAMBDA prediction :
        Bind(get_player_stats(rows, player_name, 10), LAMBDA recent_stats :
        LET recent_avg == IF Truthy(recent_stats) /\ Has(recent_stats, mean_key)
                          THEN recent_stats[mean_key] ELSE player_stat_avg
            is_over == Lower(bet_type) = "over"
            hit_probability == IF is_over THEN prediction.prob_over
                               ELSE prediction.prob_under
            edge == IF is_over THEN prediction.edge_over ELSE prediction.edge_under
            result == [player |-> player_name,
                       stat_type |-> stat_type,
                       line |-> line,
                       bet_type |-> Upper(bet_type),
                       season_avg |-> RoundDiv(player_stat_avg, 10),
                       season_std |-> Round2(player_stat_std),
                       recent_avg |-> RoundDiv(recent_avg, 10),
                       predicted_value |-> prediction.adjusted_mean,
                       probability |-> hit_probability,
                       edge |-> edge,
                       confidence_80 |-> prediction.confidence_80,
                       recommendation |-> LegRecommendation(hit_probability),
                       games_analyzed |-> season_stats[Key("games_analyzed", "")]]
        IN  IF Truthy(adjustments)
            THEN result @@ [adjustments_applied |-> adjustments,
                            adjustment_summary |-> prediction.adjustments_summary]
            ELSE result))))))

-----------------------------------------------------------------------------
(* Exact decimal arithmetic for products of probabilities.  A number is an      *)
(* integer part and a little-endian sequence of fraction limbs in base 10^4:    *)
(* [int |-> 0, frac |-> <<4169, 3584>>] is 0.35844169.  A product of 4-decimal  *)
(* probabilities is exact in it, as it is (to 1e-16) in the code's doubles.     *)

Base == 10000

One == [int |-> 1, frac |-> << >>]

RECURSIVE MulLimbs(_, _, _)
\* the limbs of frac * m + carry, with the final carry last
MulLimbs(frac, m, carry) ==
    IF frac = << >> THEN << carry >>
    ELSE LET t == Head(frac) * m + carry
         IN  << t % Base >> \o MulLimbs(Tail(frac), m, t \div Base)

\* x * m for a whole number m
MulInt(x, m) ==
    LET l == MulLimbs(x.frac, m, 0)
    IN  [int |-> x.int * m + l[Len(l)], frac |-> SubSeq(l, 1, Len(l) - 1)]

\* x * (p / 10^4) for a probability p in ten-thousandths
MulProb(x, p) ==
    LET y == MulInt(x, p)
    IN  [int |-> y.int \div Base, frac |-> y.frac \o << y.int % Base >>]

\* x * 10^4
ShiftUp(x) ==
    IF x.frac = << >> THEN [int |-> x.int * Base, frac |-> << >>]
    ELSE [int |-> x.int * Base + x.frac[Len(x.frac)],
          frac |-> SubSeq(x.frac, 1, Len(x.frac) - 1)]

\* the fraction limbs against one half: "lt", "eq" or "gt"
CmpHalf(frac) ==
    IF frac = << >> THEN "lt"
    ELSE LET top == frac[Len(frac)]
         IN  IF top > Base \div 2 THEN "gt"
             ELSE IF top < Base \div 2 THEN "lt"
             ELSE IF \E i \in 1..(Len(frac) - 1) : frac[i] # 0 THEN "gt"
             ELSE "eq"

\* round(x) to a whole number, ties to even
RoundExact(x) ==
    LET c == CmpHalf(x.frac)
    IN  IF c = "lt" THEN x.int
        ELSE IF c = "gt" THEN x.int + 1
        ELSE IF x.int % 2 = 0 THEN x.int ELSE x.int + 1

\* x * m for a multiplier in hundredths; a whole multiplier (m = 100 * k) is
\* applied in two steps so that no limb product leaves 32 bits
MulOdds(x, m) ==
    IF m % 100 = 0 THEN MulInt(MulInt(x, m \div 100), 100) ELSE MulInt(x, m)

-----------------------------------------------------------------------------
(* ParlayAnalyzer.analyze_parlay and its helpers *)

\* odds_map of _calculate_parlay_odds, in hundredths
ODDS_MAP == << 191, 264, 596, 1228, 2435, 4741, 9142, 17545, 33585, 64208 >>

RECURSIVE Pow2(_)
Pow2(n) == IF n = 0 THEN 1 ELSE 2 * Pow2(n - 1)

\* A slip in lines 241-254: the fair 2 ** num_legs for every count
_calculate_parlay_odds_fair(num_legs) == 100 * Pow2(num_legs)

\* odds_map.get(num_legs, 2 ** num_legs), in hundredths
_calculate_parlay_odds(num_legs) ==
    IF num_legs \in DOMAIN ODDS_MAP THEN ODDS_MAP[num_legs] ELSE 100 * Pow2(num_legs)

BASE_THRESHOLD == 1500     \* 0.15
THRESHOLD_STEP == 200      \* 0.02 per leg beyond two

\* A slip in line 272: the step counted from one leg instead of two
ParlayThreshold_from_one(num_legs) == BASE_THRESHOLD + (num_legs - 1) * THRESHOLD_STEP

\* threshold = 0.15 + (num_legs - 2) * 0.02, in ten-thousandths
ParlayThreshold(num_legs) == BASE_THRESHOLD + (num_legs - 2) * THRESHOLD_STEP

\* combined_prob is an exact decimal; the thresholds are whole ten-thousandths, so
\* combined_prob >= t is decided by the first four decimals of combined_prob
_make_parlay_recommendation(combined_prob, num_legs) ==
    LET threshold == ParlayThreshold(num_legs)
        c == ShiftUp(combined_prob).int
        pct == RoundExact(MulInt(combined_prob, 1000))
    IN  IF c * 10 >= threshold * 15
        THEN [band |-> "STRONG PLAY", pct |-> pct]
        ELSE IF c >= threshold
        THEN [band |-> "PLAYABLE", pct |-> pct]
        ELSE IF c * 10 >= threshold * 7
        THEN [band |-> "MARGINAL", pct |-> pct]
        ELSE [band |-> "AVOID", pct |-> pct]

\* lines 166-183: one iteration of the loop over the legs
AnalyzeOne(rows, leg, i) ==
    Bind(analyze_leg(rows, leg.player, leg.stat_type, leg.line,
                     IF Has(leg, "bet_type") THEN leg.bet_type ELSE "over",
                     IF Has(leg, "location") THEN leg.location ELSE "neutral",
                     IF Has(leg, "opponent") THEN leg.opponent ELSE NoOpponent),
         LAMBDA result :
             IF Has(result, "error") THEN result @@ [leg_number |-> i] ELSE result)

RECURSIVE CombineFrom_every_leg(_, _, _)
\* A slip in lines 190-193: leg.get('probability', 0) in place of the membership test
CombineFrom_every_leg(analyzed, i, acc) ==
    IF i > Len(analyzed) THEN acc
    ELSE CombineFrom_every_leg(analyzed, i + 1,
             [combined_prob |-> MulProb(acc.combined_prob,
                                        IF Has(analyzed[i], "probability")
                                        THEN analyzed[i].probability ELSE 0),
              valid_legs |-> acc.valid_legs + 1])

RECURSIVE CombineFrom(_, _, _)
\* lines 187-193: the running product over analyzed[i..]
CombineFrom(analyzed, i, acc) ==
    IF i > Len(analyzed) THEN acc
    ELSE IF Has(analyzed[i], "probability")
    THEN CombineFrom(analyzed, i + 1,
                     [combined_prob |-> MulProb(acc.combined_prob, analyzed[i].probability),
                      valid_legs |-> acc.valid_legs + 1])
    ELSE CombineFrom(analyzed, i + 1, acc)

\* A slip in lines 187-188: the count of valid legs starting at one
Combine_from_one(analyzed) ==
    CombineFrom(analyzed, 1, [combined_prob |-> One, valid_legs |-> 1])

Combine(analyzed) == CombineFrom(analyzed, 1, [combined_prob |-> One, valid_legs |-> 0])

RECURSIVE MinByProbability_most(_)
\* A slip in line 207: max(...) in place of min(...)
MinByProbability_most(valid_analyzed) ==
    IF Len(valid_analyzed) = 1 THEN valid_analyzed[1]
    ELSE LET rest == MinByProbability_most(Tail(valid_analyzed))
         IN  IF rest.probability > valid_analyzed[1].probability THEN rest
             ELSE valid_analyzed[1]

RECURSIVE MinByProbability(_)
\* min(valid_analyzed, key=probability): the first leg of least probability
MinByProbability(valid_analyzed) ==
    IF Len(valid_analyzed) = 1 THEN valid_analyzed[1]
    ELSE LET rest == MinByProbability(Tail(valid_analyzed))
         IN  IF rest.probability < valid_analyzed[1].probability THEN rest
             ELSE valid_analyzed[1]

\* A slip in lines 183 and 212: only the legs that were scored are kept
ParlayResult_valid_only(legs, analyzed) ==
    [legs |-> SelectSeq(analyzed, LAMBDA l : Has(l, "probability")),
     num_legs |-> Len(legs)]

\* lines 185-226: what analyze_parlay returns once every leg is analyzed
ParlayResult(legs, analyzed) ==
    Bind(Combine(analyzed), LAMBDA acc :
    LET combined_prob == acc.combined_prob
        valid_legs == acc.valid_legs
    IN  IF valid_legs = 0
        THEN [error |-> "No valid legs to analyze", legs |-> analyzed]
        ELSE
        LET estimated_odds == _calculate_parlay_odds(valid_legs)
            \* (combined_prob * odds) - 1 in thousandths, rounded to 3 decimals
            expected_value ==
                RoundExact(MulInt(MulOdds(combined_prob, estimated_odds), 10)) - 1000
            valid_analyzed == SelectSeq(analyzed, LAMBDA l : Has(l, "probability"))
        IN  [legs |-> analyzed,
             num_legs |-> Len(legs),
             valid_legs |-> valid_legs,
             combined_probability |-> RoundExact(ShiftUp(combined_prob)),
             combined_percentage |-> RoundExact(ShiftUp(combined_prob)),
             \* int((estimated_odds - 1) * 100): (1.91 - 1) * 100 is 90.99999999999999
             \* in doubles and int() truncates it; the other entries come out whole
             estimated_odds |-> IF estimated_odds = 191 THEN 90 ELSE estimated_odds - 100,
             expected_value |-> expected_value,
             recommendation |-> _make_parlay_recommendation(combined_prob, valid_legs),
             \* lines 207-210 and 220: None when no entry carries a probability
             weakest_leg |-> IF valid_analyzed # << >>
                             THEN MinByProbability(valid_analyzed).player
                             ELSE "<None>"])

-----------------------------------------------------------------------------
(* team_stats: pace *)

\* possessions per 48 minutes, in tenths
TEAM_PACE == [BOS |-> 998, IND |-> 1015, LAL |-> 992]
LEAGUE_AVERAGE_PACE == 989

get_team_pace(team_abbr) ==
    IF Upper(team_abbr) \in DOMAIN TEAM_PACE
    THEN TEAM_PACE[Upper(team_abbr)]
    ELSE LEAGUE_AVERAGE_PACE

-----------------------------------------------------------------------------
(* MatchupAnalyzer *)

\* the class's own tables, in tenths; the keys are looked up as given (no upper())
MatchupAnalyzer_TEAM_DEFENSIVE_RATINGS ==
    [OKC |-> 1043, BOS |-> 1089, PHI |-> 1118, WAS |-> 1175]
MatchupAnalyzer_TEAM_PACE ==
    [IND |-> 1035, BOS |-> 1012, PHI |-> 985, OKC |-> 978, WAS |-> 950]

MA_LEAGUE_DEF_RATING == 1120     \* 112.0
MA_DEF_WEIGHT == 6000            \* 0.6
MA_LEAGUE_PACE == 985            \* 98.5
MA_PACE_WEIGHT == 3000           \* 0.3
PACE_MIN == 9500
PACE_MAX == 10500
MA_HOME_ADJUSTMENT == 10500      \* 1.05
MA_AWAY_ADJUSTMENT == 9500       \* 0.95
MAX_HISTORY_WEIGHT == 4000       \* 0.4

\* TEAM_DEFENSIVE_RATINGS.get(opponent, 112.0) and TEAM_PACE.get(opponent, 98.5)
MatchupDefRating(opponent) ==
    IF opponent \in DOMAIN MatchupAnalyzer_TEAM_DEFENSIVE_RATINGS
    THEN MatchupAnalyzer_TEAM_DEFENSIVE_RATINGS[opponent]
    ELSE MA_LEAGUE_DEF_RATING

MatchupPace(opponent) ==
    IF opponent \in DOMAIN MatchupAnalyzer_TEAM_PACE
    THEN MatchupAnalyzer_TEAM_PACE[opponent]
    ELSE MA_LEAGUE_PACE

\* round-half-away division for a numerator of either sign
SignedRoundDiv(a, b) == IF a >= 0 THEN RoundDiv(a, b) ELSE -RoundDiv(-a, b)

\* lines 240-253, in ten-thousandths
_get_defensive_adjustment(opponent, stat_type) ==
    LET def_rating == MatchupDefRating(opponent)
        league_avg == MA_LEAGUE_DEF_RATING
        adjustment == P + SignedRoundDiv((league_avg - def_rating) * MA_DEF_WEIGHT,
                                         league_avg)
    IN  PyMax(DEF_MIN, PyMin(DEF_MAX, adjustment))

\* lines 255-267, in ten-thousandths
_get_pace_adjustment(opponent) ==
    LET pace == MatchupPace(opponent)
        league_avg == MA_LEAGUE_PACE
        adjustment == P + SignedRoundDiv((pace - league_avg) * MA_PACE_WEIGHT, league_avg)
    IN  PyMax(PACE_MIN, PyMin(PACE_MAX, adjustment))

\* one row of data/gamelogs_2024.csv after the cleaning of __init__; NoneVal is NaN
CsvRow(player_name, Opp, PTS, AST, ThreeP) ==
    [player_name |-> player_name, Opp |-> Opp,
     cols |-> ("PTS" :> PTS @@ "AST" :> AST @@ "3P" :> ThreeP)]

\* the CSV frame of MatchupAnalyzer.__init__ (lines 92-104) when the file loads
MATCHUP_GAMELOGS ==
    << CsvRow("Stephen Curry", "BOS", 21, 7, 2),
       CsvRow("Stephen Curry", "BOS", 27, 5, NoneVal),
       CsvRow("Stephen Curry", "OKC", 35, 6, 6),
       CsvRow("Stephen Curry", "WAS", 40, 4, 8),
       CsvRow("Stephen Curry", "WAS", 38, 6, 7),
       CsvRow("Stephen Curry", "WAS", 36, 8, 6),
       CsvRow("Stephen Curry", "WAS", 34, 2, 5),
       CsvRow("Stephen Curry", "WAS", 32, 5, 9),
       CsvRow("Luka Doncic", "BOS", 30, 9, 3) >>

\* str.upper() on the stat keys of analyze_leg_with_matchup
UpperKey(stat_key) ==
    CASE stat_key = "pts" -> "PTS"
      [] stat_key = "ast" -> "AST"
      [] stat_key = "trb" -> "TRB"
      [] stat_key = "3p" -> "3P"
      [] stat_key = "stl" -> "STL"
      [] stat_key = "blk" -> "BLK"
      [] stat_key = "tov" -> "TOV"
      [] stat_key = "pa" -> "PA"
      [] stat_key = "pra" -> "PRA"
      [] OTHER -> stat_key

\* lines 269-293; csv is self.gamelogs (the empty frame when the file did not load)
_get_matchup_history(csv, player_name, opponent, stat_key) ==
    IF csv = << >> THEN [games |-> 0, avg |-> 0]
    ELSE LET matchup_games == SelectSeq(csv, LAMBDA r : r.player_name = player_name
                                                        /\ r.Opp = opponent)
             csv_col == UpperKey(stat_key)
         IN  IF matchup_games = << >> THEN [games |-> 0, avg |-> 0]
             ELSE IF csv_col \notin DOMAIN matchup_games[1].cols
             THEN [games |-> 0, avg |-> 0]
             ELSE LET all == [i \in 1..Len(matchup_games) |-> matchup_games[i].cols[csv_col]]
                      values == SelectSeq(all, LAMBDA x : x # NoneVal)
                  IN  [games |-> Len(values),
                       avg |-> IF Len(values) > 0
                               THEN RoundDiv(SeriesMean(values), 10) * 10 ELSE 0]

\* lines 295-308
_describe_defense(opponent) ==
    LET def_rating == MatchupDefRating(opponent)
    IN  IF def_rating < 1080 THEN "Elite defense (Top 5)"
        ELSE IF def_rating < 1110 THEN "Above average defense"
        ELSE IF def_rating < 1140 THEN "Average defense"
        ELSE IF def_rating < 1160 THEN "Below average defense"
        ELSE "Poor defense (Bottom 5)"

\* lines 310-319
_describe_pace(opponent) ==
    LET pace == MatchupPace(opponent)
    IN  IF pace > 1010 THEN "Fast pace (more possessions)"
        ELSE IF pace > 980 THEN "Average pace"
        ELSE "Slow pace (fewer possessions)"

\* lines 321-332 (MatchupAnalyzer._make_recommendation)
MatchupAnalyzer_make_recommendation(probability) ==
    IF probability >= 6000 THEN "STRONG HIT"
    ELSE IF probability >= 5500 THEN "LEAN HIT"
    ELSE IF probability >= 5000 THEN "TOSS-UP"
    ELSE IF probability >= 4500 THEN "LEAN MISS"
    ELSE "STRONG MISS"

\* stat_map of analyze_leg_with_matchup (lines 135-145)
MatchupAnalyzer_stat_map ==
    [points |-> "pts", assists |-> "ast", rebounds |-> "trb", three_pointers |-> "3p",
     steals |-> "stl", blocks |-> "blk", turnovers |-> "tov", points_assists |-> "pa",
     points_rebounds_assists |-> "pra"]

\* A slip in line 188: the weight games / 10 without its cap
HistoryWeight_uncapped(games) == games * 1000

\* line 188: min(games / 10, 0.4) in ten-thousandths
HistoryWeight(games) == PyMin(games * 1000, MAX_HISTORY_WEIGHT)

\* lines 158-206: the adjusted average and the list of adjustments
MatchupAdjust(csv, player_name, stat_type, stat_key, opponent, is_home, season_avg) ==
    LET def_adjustment == _get_defensive_adjustment(opponent, stat_type)
        pace_adjustment == _get_pace_adjustment(opponent)
        matchup_data == _get_matchup_history(csv, player_name, opponent, stat_key)
        a1 == IF opponent # NoOpponent
              THEN RoundDiv(season_avg * def_adjustment, P) ELSE season_avg
        a2 == IF opponent # NoOpponent
              THEN RoundDiv(a1 * pace_adjustment, P) ELSE a1
        weight == HistoryWeight(matchup_data.games)
        blended == opponent # NoOpponent /\ matchup_data.games > 0
        a3 == IF blended
              THEN RoundDiv(a2 * (P - weight) + matchup_data.avg * weight, P)
              ELSE a2
        home_adjustment == IF is_home THEN MA_HOME_ADJUSTMENT ELSE MA_AWAY_ADJUSTMENT
        a4 == RoundDiv(a3 * home_adjustment, P)
        opp == IF opponent # NoOpponent
               THEN << [factor |-> "Defense", team |-> opponent,
                        multiplier |-> RoundDiv(def_adjustment, 10),
                        description |-> _describe_defense(opponent)],
                       [factor |-> "Pace", team |-> opponent,
                        multiplier |-> RoundDiv(pace_adjustment, 10),
                        description |-> _describe_pace(opponent)] >>
               ELSE << >>
        hist == IF blended
                THEN << [factor |-> "Matchup History", games |-> matchup_data.games,
                         vs_avg |-> matchup_data.avg,
                         description |-> << "Last games vs", matchup_data.games, opponent >>] >>
                ELSE << >>
        home == << [factor |-> "Home/Away",
                    multiplier |-> RoundDiv(home_adjustment, 10),
                    description |-> IF is_home THEN "Home" ELSE "Away"] >>
    IN  [before_blend |-> a2, after_blend |-> a3, adjusted_avg |-> a4,
         adjustments |-> opp \o hist \o home]

\* lines 208-238: the prediction on the adjusted average and the result dict
MatchupEvaluate(csv, recent_stats, player_name, stat_type, stat_key, line, bet_type, opponent, is_home, season_avg, season_std) ==
    Bind(MatchupAdjust(csv, player_name, stat_type, stat_key, opponent, is_home,
                       season_avg), LAMBDA adj :
    Bind(predict_with_confidence(adj.adjusted_avg, line, season_std, EmptyDict),
         LAMBDA prediction :
    LET mean_key == Key(stat_key, "mean")
        recent_avg == IF Truthy(recent_stats) /\ Has(recent_stats, mean_key)
                      THEN recent_stats[mean_key] ELSE season_avg
        hit_probability == IF Lower(bet_type) = "over" THEN prediction.prob_over
                           ELSE prediction.prob_under
    IN  \* line 230 divides by season_avg
        IF season_avg = 0 THEN [raised |-> "ZeroDivisionError"]
        ELSE [player |-> player_name,
              stat_type |-> stat_type,
              line |-> line,
              bet_type |-> Upper(bet_type),
              opponent |-> opponent,
              location |-> IF is_home THEN "Home" ELSE "Away",
              season_avg |-> season_avg,
              adjusted_avg |-> RoundDiv(adj.adjusted_avg, 10),
              adjustment_magnitude |->
                  SignedRoundDiv((adj.adjusted_avg - season_avg) * 1000, season_avg),
              recent_avg |-> recent_avg,
              probability |-> RoundDiv(hit_probability, 10),
              confidence_80 |-> prediction.confidence_80,
              recommendation |-> MatchupAnalyzer_make_recommendation(hit_probability),
              adjustments |-> adj.adjustments,
              analysis_quality |-> IF opponent # NoOpponent THEN "Enhanced" ELSE "Basic"]))

\* lines 106-238; rows is the frame of self.stats_calc, csv is self.gamelogs
analyze_leg_with_matchup(rows, csv, player_name, stat_type, line, bet_type, opponent, is_home) ==
    Bind(get_player_stats(rows, player_name, NoneVal), LAMBDA base_stats :
    IF ~Truthy(base_stats)
    THEN [error |-> [msg |-> "Player not found", arg |-> player_name]]
    ELSE IF stat_type \notin DOMAIN MatchupAnalyzer_stat_map
    THEN [error |-> [msg |-> "Invalid stat type", arg |-> stat_type]]
    ELSE
    LET stat_key == MatchupAnalyzer_stat_map[stat_type]
        mean_key == Key(stat_key, "mean")
        std_key == Key(stat_key, "std")
    IN  IF ~Has(base_stats, mean_key)
        THEN [error |-> [msg |-> "No data for", arg |-> << player_name, stat_type >>]]
        ELSE MatchupEvaluate(csv, get_player_stats(rows, player_name, 10),
                             player_name, stat_type, stat_key, line, bet_type,
                             opponent, is_home, base_stats[mean_key],
                             IF Has(base_stats, std_key) THEN base_stats[std_key]
                             ELSE Times03(base_stats[mean_key])))

-----------------------------------------------------------------------------
(* UsageLimiter *)

ANONYMOUS_DAILY_LIMIT == 5
AUTHENTICATED_DAILY_LIMIT == 7
MINIMUM_INTERVAL_SECONDS == 300
DAY_SECONDS == 86400

\* The instants the clock visits in a day, in seconds after local midnight: the
\* first half hour, then two and a half minutes before the next midnight.
DAY_TRACK == << 0, 150, 300, 600, 900, 1200, 1500, 1800, 86250 >>

\* time.time() at an instant of the clock; day 0 is the day of the epoch
Timestamp(t) == t.day * DAY_SECONDS + DAY_TRACK[t.idx]

\* datetime.now().date()
Today(t) == t.day

\* dict.get(key, default)
Get(d, k, default) == IF Has(d, k) THEN d[k] ELSE default

\* lines 168-170: '@' and '.' become '_'
_sanitize_id(user_id) ==
    CASE user_id = "user@example.com" -> "user_example_com"
      [] OTHER -> user_id

\* lines 129-136: the dict of the user's file, {} when there is no file
_load_usage(files, user_id) == files[_sanitize_id(user_id)]

\* lines 138-143
_save_usage(files, user_id, data) == [files EXCEPT ![_sanitize_id(user_id)] = data]

\* lines 153-160; last_reset is a date or None
_is_new_day(last_reset, t) == last_reset = NoneVal \/ Today(t) > last_reset

\* lines 145-151: the returned dict has no last_use_timestamp
_reset_daily_usage(files, user_id, t) ==
    [count_today |-> 0,
     last_reset |-> Today(t),
     total_lifetime_uses |-> Get(_load_usage(files, user_id), "total_lifetime_uses", 0)]

\* lines 49-53 and 100-104: the usage data both public methods work on
CurrentUsage(files, user_id, t) ==
    LET usage_data == _load_usage(files, user_id)
    IN  IF _is_new_day(Get(usage_data, "last_reset", NoneVal), t)
        THEN _reset_daily_usage(files, user_id, t)
        ELSE usage_data

DailyLimit(is_authenticated) ==
    IF is_authenticated THEN AUTHENTICATED_DAILY_LIMIT ELSE ANONYMOUS_DAILY_LIMIT

\* A slip in line 60: > in place of >=
check_can_analyze_one_more(files, user_id, is_authenticated, t) ==
    LET usage_data == CurrentUsage(files, user_id, t)
        daily_limit == DailyLimit(is_authenticated)
        count_today == Get(usage_data, "count_today", 0)
        time_since_last == Timestamp(t) - Get(usage_data, "last_use_timestamp", 0)
    IN  IF count_today > daily_limit
        THEN [allowed |-> FALSE, reason |-> "daily_limit_reached", remaining |-> 0,
              reset_time |-> Today(t) + 1]
        ELSE IF time_since_last < MINIMUM_INTERVAL_SECONDS
        THEN [allowed |-> FALSE, reason |-> "cooldown_active",
              remaining |-> daily_limit - count_today,
              cooldown_seconds |-> MINIMUM_INTERVAL_SECONDS - time_since_last]
        ELSE [allowed |-> TRUE, remaining |-> daily_limit - count_today - 1,
              total_limit |-> daily_limit, analyses_today |-> count_today]

\* lines 38-91
check_can_analyze(files, user_id, is_authenticated, t) ==
    LET usage_data == CurrentUsage(files, user_id, t)
        daily_limit == DailyLimit(is_authenticated)
        count_today == Get(usage_data, "count_today", 0)
        last_use == Get(usage_data, "last_use_timestamp", 0)
        time_since_last == Timestamp(t) - last_use
    IN  IF count_today >= daily_limit
        THEN [allowed |-> FALSE, reason |-> "daily_limit_reached", remaining |-> 0,
              reset_time |-> Today(t) + 1]
        ELSE IF time_since_last < MINIMUM_INTERVAL_SECONDS
        THEN [allowed |-> FALSE, reason |-> "cooldown_active",
              remaining |-> daily_limit - count_today,
              cooldown_seconds |-> MINIMUM_INTERVAL_SECONDS - time_since_last]
        ELSE [allowed |-> TRUE, remaining |-> daily_limit - count_today - 1,
              total_limit |-> daily_limit, analyses_today |-> count_today]

\* lines 93-111
record_usage(files, user_id, t) ==
    LET usage_data == CurrentUsage(files, user_id, t)
        data == [count_today |-> Get(usage_data, "count_today", 0) + 1,
                 last_reset |-> Get(usage_data, "last_reset", NoneVal),
                 last_use_timestamp |-> Timestamp(t),
                 total_lifetime_uses |-> Get(usage_data, "total_lifetime_uses", 0) + 1]
    IN  _save_usage(files, user_id, data)

-----------------------------------------------------------------------------
(* The analyzer as a state machine *)

NoCall == [kind |-> "none"]
NoReturn == [kind |-> "none"]

\* the user of the API handlers (routes.py:40, 113), the caller of the module's own
\* run (usage_limiter.py:180), and an account identified by its e-mail address
Users == {"test_user", "test_session_12345"}

\* routes.py:45 passes is_authenticated=True; usage_limiter.py:184 leaves the default
IsAuthenticated(user_id) == user_id = "test_user"

Files == {_sanitize_id(u) : u \in Users}

\* the threads that may evaluate legs on the one analyzer of routes.py:18
Threads == {1, 2}

IdleThread == [pos |-> "idle"]

\* __init__: a failed connection leaves conn unset and an empty frame in the cache
Init ==
    /\ conn \in BOOLEAN
    /\ gamelogs_cache = IF conn THEN [loaded |-> FALSE]
                        ELSE [loaded |-> TRUE, rows |-> << >>]
    /\ call = NoCall
    /\ analyzed_legs = << >>
    /\ ret = NoReturn
    /\ probe = [fn |-> "none"]
    /\ usage = [f \in Files |-> EmptyDict]
    /\ now = [day |-> 1, idx |-> 1]
    /\ \E u \in Users : request = [route |-> "none", user |-> u]
    /\ uses = [u \in Users |-> NoneVal]
    /\ threads = [t \in Threads |-> IdleThread]

\* Inputs of the calls the model makes
MaxLegs == 3

Players == {"Stephen Curry", "STEPHEN CURRY", "Luka Doncic", "Nikola Jokic", "Nobody"}
StatTypes == {"threes", "turnovers", "points", "three_p", "points_assists", "bogus"}
LegLines == {500, 3500, 4377, 6500, 40000}
BetTypes == {"over", "under"}
Locations == {"home", "away", "neutral"}
Opponents == {NoOpponent, "BOS", "XXX"}

LegRequests ==
    [player : Players, stat_type : StatTypes, line : LegLines,
     bet_type : BetTypes, location : Locations, opponent : Opponents]

\* leg dicts as callers of analyze_parlay build them; the optional keys may be absent
ParlayPool ==
    { [player |-> "Stephen Curry", stat_type |-> "threes", line |-> 3500, bet_type |-> "over"],
      [player |-> "Stephen Curry", stat_type |-> "threes", line |-> 4377, bet_type |-> "under",
       location |-> "neutral", opponent |-> NoOpponent],
      [player |-> "Stephen Curry", stat_type |-> "turnovers", line |-> 2500,
       location |-> "home", opponent |-> "BOS"],
      [player |-> "Luka Doncic", stat_type |-> "threes", line |-> 2500, bet_type |-> "over",
       location |-> "away"],
      [player |-> "Nikola Jokic", stat_type |-> "threes", line |-> 500, bet_type |-> "under"],
      [player |-> "Nikola Jokic", stat_type |-> "threes", line |-> 1500, bet_type |-> "over",
       location |-> NoLocation],
      [player |-> "Nobody", stat_type |-> "threes", line |-> 2500, bet_type |-> "over"],
      [player |-> "Stephen Curry", stat_type |-> "points", line |-> 24500, bet_type |-> "over",
       location |-> "home", opponent |-> "LAL"] }

\* POST /analyze-leg reaching ParlayAnalyzer.analyze_leg
CallAnalyzeLeg ==
    /\ call = NoCall
    /\ \E req \in LegRequests :
        LET rows == gamelogs(gamelogs_cache, conn)
        IN  /\ gamelogs_cache' = [loaded |-> TRUE, rows |-> rows]
            /\ ret' = [kind |-> "leg",
                       value |-> analyze_leg(rows, req.player, req.stat_type, req.line,
                                             req.bet_type, req.location, req.opponent)]
            /\ call' = [kind |-> "leg", req |-> req, pos |-> "returned"]
            /\ UNCHANGED <<conn, analyzed_legs, probe>>
    /\ UNCHANGED <<limiterVars, threadVars>>

\* POST /analyze-parlay (or any other caller) starts a list of leg dicts
ReceiveParlay ==
    /\ call = NoCall
    /\ call' = [kind |-> "parlay", legs |-> << >>, pos |-> "request"]
    /\ UNCHANGED <<conn, gamelogs_cache, analyzed_legs, ret, probe>>
    /\ UNCHANGED <<limiterVars, threadVars>>

\* the caller appends one leg dict to the list it will pass
AddLeg ==
    /\ call.kind = "parlay"
    /\ call.pos = "request"
    /\ Len(call.legs) < MaxLegs
    /\ \E leg \in ParlayPool :
        call' = [call EXCEPT !.legs = Append(call.legs, leg)]
    /\ UNCHANGED <<conn, gamelogs_cache, analyzed_legs, ret, probe>>
    /\ UNCHANGED <<limiterVars, threadVars>>

\* analyze_parlay, lines 161-163: entry with the list built
CallAnalyzeParlay ==
    /\ call.kind = "parlay"
    /\ call.pos = "request"
    /\ call' = [call EXCEPT !.pos = "loop"]
    /\ analyzed_legs' = << >>
    /\ UNCHANGED <<conn, gamelogs_cache, ret, probe>>
    /\ UNCHANGED <<limiterVars, threadVars>>

\* analyze_parlay, lines 166-183: one iteration of the loop
ParlayLeg ==
    /\ call.kind = "parlay"
    /\ call.pos = "loop"
    /\ Len(analyzed_legs) < Len(call.legs)
    /\ LET rows == gamelogs(gamelogs_cache, conn)
           i == Len(analyzed_legs) + 1
           result == AnalyzeOne(rows, call.legs[i], i)
       IN  /\ gamelogs_cache' = [loaded |-> TRUE, rows |-> rows]
           /\ IF Has(result, "raised")
              THEN \* nothing in analyze_parlay catches: the exception leaves the call
                   /\ ret' = [kind |-> "raised", value |-> result.raised]
                   /\ call' = [call EXCEPT !.pos = "returned"]
                   /\ UNCHANGED analyzed_legs
              ELSE /\ analyzed_legs' = Append(analyzed_legs, result)
                   /\ UNCHANGED <<call, ret>>
           /\ UNCHANGED <<conn, probe>>
    /\ UNCHANGED <<limiterVars, threadVars>>

\* analyze_parlay, lines 185-226: combine and return
ParlayReturn ==
    /\ call.kind = "parlay"
    /\ call.pos = "loop"
    /\ Len(analyzed_legs) = Len(call.legs)
    /\ ret' = [kind |-> "parlay", value |-> ParlayResult(call.legs, analyzed_legs)]
    /\ call' = [call EXCEPT !.pos = "returned"]
    /\ UNCHANGED <<conn, gamelogs_cache, analyzed_legs, probe>>
    /\ UNCHANGED <<limiterVars, threadVars>>

\* the caller takes the returned value; the analyzer object and its cache live on
Done ==
    /\ call # NoCall
    /\ call.pos = "returned"
    /\ call' = NoCall
    /\ ret' = NoReturn
    /\ analyzed_legs' = << >>
    /\ UNCHANGED <<conn, gamelogs_cache, probe>>
    /\ UNCHANGED <<limiterVars, threadVars>>

Next ==
    \/ CallAnalyzeLeg
    \/ ReceiveParlay
    \/ AddLeg
    \/ CallAnalyzeParlay
    \/ ParlayLeg
    \/ ParlayReturn
    \/ Done

Spec == Init /\ [][Next]_vars

-----------------------------------------------------------------------------
(* Properties of analyze_parlay and analyze_leg *)

\* the frame the analyzer reads in the current state
CurrentRows == gamelogs(gamelogs_cache, conn)

ParlayReturned == call.kind = "parlay" /\ call.pos = "returned"

\* what the evaluation of each submitted leg, taken alone, gives
ExpectedResults ==
    [i \in 1..Len(call.legs) |-> AnalyzeOne(CurrentRows, call.legs[i], i)]

Succeeding == {i \in 1..Len(call.legs) : Has(ExpectedResults[i], "probability")}
Failing == {i \in 1..Len(call.legs) : Has(ExpectedResults[i], "error")}

RECURSIVE ProductOfValid(_)
\* the exact product of the probabilities of the valid entries of a list
ProductOfValid(results) ==
    IF results = << >> THEN One
    ELSE IF Has(Head(results), "probability")
    THEN MulProb(ProductOfValid(Tail(results)), Head(results).probability)
    ELSE ProductOfValid(Tail(results))

\* C1: whenever analyze_parlay was called with a list in which some leg fails
\* (player not found or invalid stat type), the call returns a value whose
\* `legs` holds one entry per submitted leg, the failed leg's entry carries its
\* error and its leg number, every other leg's entry is that leg's own
\* evaluation, and valid_legs and combined_probability are those of the
\* succeeding legs alone.
C1_FailedLegIsolated ==
    ParlayReturned =>
        \A i \in Failing :
            /\ ret.kind = "parlay"
            /\ Len(ret.value.legs) = Len(call.legs)
            /\ Has(ret.value.legs[i], "error")
            /\ ret.value.legs[i].leg_number = i
            /\ \A j \in 1..Len(call.legs) : ret.value.legs[j] = ExpectedResults[j]
            /\ Has(ret.value, "valid_legs") =>
                   /\ ret.value.valid_legs = Cardinality(Succeeding)
                   /\ ret.value.combined_probability =
                          RoundExact(ShiftUp(ProductOfValid(ExpectedResults)))

C3_ProductOfValidLegs ==
    (ret.kind = "parlay" /\ ~Has(ret.value, "error")) =>
        /\ ret.value.combined_probability =
               RoundExact(ShiftUp(ProductOfValid(ExpectedResults)))
        /\ ret.value.valid_legs = Cardinality(Succeeding)
        /\ \A i \in Succeeding :
               Succeeding = {i} =>
                   /\ ret.value.combined_probability = ExpectedResults[i].probability
                   /\ ret.value.valid_legs = 1

\* three legs were submitted, one failed, and the result is the product of two
C3_Witness ==
    /\ ret.kind = "parlay"
    /\ Len(call.legs) = 3
    /\ Cardinality(Failing) = 1
    /\ Cardinality(Succeeding) = 2
    /\ ~Has(ret.value, "error")
    /\ ret.value.combined_probability < ExpectedResults[CHOOSE i \in Succeeding : TRUE].probability

\* the stat types the leg request enumerates, as analyze_leg's callers name them
EnumeratedStatTypes == DOMAIN STAT_MAP \cup {"turnovers"}

\* the player has at least one game record in the frame
HasRecord(rows, player_name) ==
    \E i \in 1..Len(rows) : Lower(rows[i].player_name) = Lower(player_name)

\* C4: a leg for a player with game records and an enumerated stat type does
\* not fail; the invalid-stat-type error is returned only for a stat type
\* outside the enumeration, and player-not-found only for a player without
\* a record.
C4_EnumeratedStatsResolve ==
    (call.kind = "leg" /\ ret.kind = "leg") =>
        /\ (HasRecord(CurrentRows, call.req.player)
               /\ call.req.stat_type \in EnumeratedStatTypes)
              => ~Has(ret.value, "error")
        /\ Has(ret.value, "error") =>
              /\ ret.value.error.msg = "Invalid stat type"
                    => call.req.stat_type \notin EnumeratedStatTypes
              /\ ret.value.error.msg = "Player not found"
                    => ~HasRecord(CurrentRows, call.req.player)

\* C11: in every parlay result with at least one valid leg, the reported
\* weakest leg is the player of a succeeding leg whose probability is the
\* least among the succeeding legs; it is never absent and never taken from
\* a failed leg's entry (which carries no player and no probability).
C11_WeakestLegIsMinimumValid ==
    (ret.kind = "parlay" /\ ~Has(ret.value, "error")) =>
        /\ ret.value.weakest_leg # "<None>"
        /\ \E i \in Succeeding :
               /\ ret.value.weakest_leg = ExpectedResults[i].player
               /\ ret.value.legs[i] = ExpectedResults[i]
               /\ \A j \in Succeeding :
                      ExpectedResults[i].probability <= ExpectedResults[j].probability

\* three legs, one failed, and the weakest valid leg is not the first valid one
C11_Witness ==
    /\ ret.kind = "parlay"
    /\ ~Has(ret.value, "error")
    /\ Len(call.legs) = 3
    /\ Failing # {}
    /\ \E i, j \in Succeeding :
           /\ i < j
           /\ ExpectedResults[j].probability < ExpectedResults[i].probability
           /\ ExpectedResults[j].player # ExpectedResults[i].player
           /\ ret.value.weakest_leg = ExpectedResults[j].player

\* C8: a successful leg with probability >= 0.55 for its direction is
\* recommended HIT, one with probability <= 0.45 MISS, and only one strictly
\* between the two is a TOSS-UP.
C8_RecommendationBands ==
    (ret.kind = "leg" /\ Has(ret.value, "probability")) =>
        /\ ret.value.probability >= HIT_ABOVE => ret.value.recommendation = "HIT"
        /\ ret.value.probability <= MISS_BELOW => ret.value.recommendation = "MISS"
        /\ ret.value.recommendation = "TOSS-UP" =>
               (MISS_BELOW < ret.value.probability /\ ret.value.probability < HIT_ABOVE)

-----------------------------------------------------------------------------
(* Direct calls of the pure functions of ProbabilityModel *)

ProbeMeans == {0, 200, 2000, 10000, 24500}
ProbeStds == {NoneVal, NaN, 0, 50, 100, 1000, 8000}
ProbeLines == {0, 500, 2500, 10000, 22500, 200000}

ProbeProbNormal ==
    /\ probe.fn = "none"
    /\ \E mean \in ProbeMeans, std \in ProbeStds, line \in ProbeLines :
        /\ probe' = [fn |-> "calculate_probability_normal",
                     mean |-> mean, std |-> std, line |-> line,
                     divisor |-> StdDivisor(mean, std),
                     over |-> calculate_probability_normal(mean, std, line, TRUE),
                     under |-> calculate_probability_normal(mean, std, line, FALSE)]
        /\ UNCHANGED <<conn, gamelogs_cache, call, analyzed_legs, ret>>
    /\ UNCHANGED <<limiterVars, threadVars>>

ProbeAdjustments ==
    {EmptyDict, [location |-> HOME_COURT_FACTOR], BuildAdjustments("away", "BOS")}

\* predict_with_confidence, with the std it hands to calculate_probability_normal
ProbePredict ==
    /\ probe.fn = "none"
    /\ \E player_avg \in ProbeMeans, variance \in ProbeStds,
          line \in ProbeLines, adjustments \in ProbeAdjustments :
        /\ probe' = [fn |-> "predict_with_confidence",
                     player_avg |-> player_avg, variance |-> variance, line |-> line,
                     adjusted |-> Truthy(adjustments),
                     adjusted_mean |-> apply_matchup_adjustments(player_avg, adjustments),
                     std |-> predict_std(player_avg, variance, adjustments),
                     divisor |-> StdDivisor(
                                    apply_matchup_adjustments(player_avg, adjustments),
                                    predict_std(player_avg, variance, adjustments)),
                     prediction |-> predict_with_confidence(player_avg, line, variance,
                                                            adjustments)]
        /\ UNCHANGED <<conn, gamelogs_cache, call, analyzed_legs, ret>>
    /\ UNCHANGED <<limiterVars, threadVars>>

\* The combining part of analyze_parlay (lines 185-226) on the list its loop built
MaxValid == 12
MaxFailed == 2
ProbeProbabilities == {100, 4500, 5500, 9900}

RECURSIVE Repeat(_, _)
Repeat(x, n) == IF n = 0 THEN << >> ELSE << x >> \o Repeat(x, n - 1)

ProbeCombine ==
    /\ probe.fn = "none"
    /\ \E v \in 0..MaxValid, k \in 0..MaxFailed, p \in ProbeProbabilities,
          failed_first \in BOOLEAN :
        LET valid == Repeat([player |-> "Stephen Curry", probability |-> p], v)
            failed == [i \in 1..k |->
                         [error |-> [msg |-> "Player not found", arg |-> "Nobody"],
                          leg_number |-> IF failed_first THEN i ELSE v + i]]
            analyzed == IF failed_first THEN failed \o valid ELSE valid \o failed
        IN  /\ probe' = [fn |-> "analyze_parlay", valid |-> v, failed |-> k, p |-> p,
                         analyzed |-> analyzed,
                         result |-> ParlayResult(analyzed, analyzed)]
            /\ UNCHANGED <<conn, gamelogs_cache, call, analyzed_legs, ret>>
    /\ UNCHANGED <<limiterVars, threadVars>>

\* _make_parlay_recommendation on combined probabilities of four decimals
MaxRecLegs == 5
ProbeCombined ==
    {500, 1049, 1050, 1190, 1499, 1500, 1700, 1914, 2249, 2250, 2550, 5000, 9900}

ProbeParlayRecommendation ==
    /\ probe.fn = "none"
    /\ \E c \in ProbeCombined, num_legs \in 1..MaxRecLegs :
        /\ probe' = [fn |-> "_make_parlay_recommendation",
                     combined_prob |-> c, num_legs |-> num_legs,
                     recommendation |->
                         _make_parlay_recommendation(MulProb(One, c), num_legs)]
        /\ UNCHANGED <<conn, gamelogs_cache, call, analyzed_legs, ret>>
    /\ UNCHANGED <<limiterVars, threadVars>>

\* analyze_leg on the frame the database holds
ProbeLeg ==
    /\ probe.fn = "none"
    /\ \E player \in Players, stat_type \in {"threes", "turnovers"}, line \in LegLines,
          bet_type \in BetTypes, location \in {"home", "neutral"} :
        /\ probe' = [fn |-> "analyze_leg", bet_type |-> bet_type,
                     result |-> analyze_leg(GAME_LOGS, player, stat_type, line,
                                            bet_type, location, NoOpponent)]
        /\ UNCHANGED <<conn, gamelogs_cache, call, analyzed_legs, ret>>
    /\ UNCHANGED <<limiterVars, threadVars>>

\* calculate_defense_factor on two ratings, and on what an unknown code resolves to
ProbeRatings == {800, 850, 900, 1000, 1106, 1150, 1195, 1400, 1450, 1500}

ProbeDefenseFactor ==
    /\ probe.fn = "none"
    /\ \E x \in ProbeRatings, y \in ProbeRatings :
        /\ probe' = [fn |-> "calculate_defense_factor", x |-> x, y |-> y,
                     fx |-> calculate_defense_factor(x),
                     fy |-> calculate_defense_factor(y),
                     unknown |-> calculate_defense_factor(get_team_defense("XXX"))]
        /\ UNCHANGED <<conn, gamelogs_cache, call, analyzed_legs, ret>>
    /\ UNCHANGED <<limiterVars, threadVars>>

\* MatchupAnalyzer._get_defensive_adjustment on two team codes
ProbeTeams == {"OKC", "BOS", "PHI", "WAS", "XXX"}

ProbeDefensiveAdjustment ==
    /\ probe.fn = "none"
    /\ \E a \in ProbeTeams, b \in ProbeTeams :
        /\ probe' = [fn |-> "_get_defensive_adjustment", a |-> a, b |-> b,
                     x |-> MatchupDefRating(a), y |-> MatchupDefRating(b),
                     fx |-> _get_defensive_adjustment(a, "points"),
                     fy |-> _get_defensive_adjustment(b, "points"),
                     unknown |-> _get_defensive_adjustment("XXX", "points")]
        /\ UNCHANGED <<conn, gamelogs_cache, call, analyzed_legs, ret>>
    /\ UNCHANGED <<limiterVars, threadVars>>

\* ParlayAnalyzer.analyze_leg with location and opponent, next to the baseline of
\* get_player_stats and the adjusted mean and std predict_with_confidence uses
ProbeLegContext ==
    /\ probe.fn = "none"
    /\ \E player \in {"Stephen Curry", "Nikola Jokic", "Luka Doncic"},
          stat_type \in {"threes", "turnovers"},
          location \in Locations, opponent \in {NoOpponent, "BOS", "LAL", "XXX"} :
        LET stats == get_player_stats(GAME_LOGS, player, NoneVal)
            known == Has(stats, Key(stat_type, "mean"))
            baseline == IF known THEN stats[Key(stat_type, "mean")] ELSE 0
            base_std == IF known THEN stats[Key(stat_type, "std")] ELSE NoneVal
            adjustments == BuildAdjustments(location, opponent)
        IN  /\ probe' = [fn |-> "analyze_leg_context",
                         player |-> player, stat_type |-> stat_type,
                         location |-> location, opponent |-> opponent,
                         baseline |-> baseline,
                         base_std |-> predict_base_std(baseline, base_std),
                         adjusted_mean |-> apply_matchup_adjustments(baseline, adjustments),
                         std |-> predict_std(baseline, base_std, adjustments),
                         result |-> analyze_leg(GAME_LOGS, player, stat_type, 2500, "over",
                                                location, opponent)]
            /\ UNCHANGED <<conn, gamelogs_cache, call, analyzed_legs, ret>>
    /\ UNCHANGED <<limiterVars, threadVars>>

\* lines 158-238 of analyze_leg_with_matchup on a season average and std
ProbeSeasonAvgs == {0, 500, 4000, 24000}
ProbeSeasonStds == {NaN, 1000, 6000}
ProbeOpponents == {NoOpponent, "BOS", "OKC", "WAS", "XXX"}

ProbeMatchupEvaluate ==
    /\ probe.fn = "none"
    /\ \E csv \in {<< >>, MATCHUP_GAMELOGS},
          player \in {"Stephen Curry", "stephen curry"},
          stat_type \in {"points", "three_pointers", "points_assists"},
          opponent \in ProbeOpponents, is_home \in BOOLEAN,
          season_avg \in ProbeSeasonAvgs, season_std \in ProbeSeasonStds :
        LET stat_key == MatchupAnalyzer_stat_map[stat_type]
            adj == MatchupAdjust(csv, player, stat_type, stat_key, opponent, is_home,
                                 season_avg)
        IN  /\ probe' = [fn |-> "MatchupEvaluate",
                         player |-> player, stat_type |-> stat_type,
                         opponent |-> opponent, is_home |-> is_home,
                         season_avg |-> season_avg,
                         base_std |-> predict_base_std(season_avg, season_std),
                         history |-> _get_matchup_history(csv, player, opponent, stat_key),
                         adj |-> adj,
                         std |-> predict_std(adj.adjusted_avg, season_std, EmptyDict),
                         result |-> MatchupEvaluate(csv, EmptyDict, player, stat_type,
                                                    stat_key, 4500, "over", opponent,
                                                    is_home, season_avg, season_std)]
            /\ UNCHANGED <<conn, gamelogs_cache, call, analyzed_legs, ret>>
    /\ UNCHANGED <<limiterVars, threadVars>>

\* MatchupAnalyzer.analyze_leg_with_matchup on the frame the database holds
ProbeMatchupLeg ==
    /\ probe.fn = "none"
    /\ \E csv \in {<< >>, MATCHUP_GAMELOGS},
          player \in {"Stephen Curry", "Nikola Jokic", "Nobody"},
          stat_type \in DOMAIN MatchupAnalyzer_stat_map \cup {"threes", "bogus"},
          opponent \in {NoOpponent, "BOS"}, is_home \in BOOLEAN :
        /\ probe' = [fn |-> "analyze_leg_with_matchup",
                     player |-> player, stat_type |-> stat_type,
                     opponent |-> opponent, is_home |-> is_home,
                     result |-> analyze_leg_with_matchup(GAME_LOGS, csv, player, stat_type,
                                                         4500, "over", opponent, is_home)]
        /\ UNCHANGED <<conn, gamelogs_cache, call, analyzed_legs, ret>>
    /\ UNCHANGED <<limiterVars, threadVars>>

\* MatchupAnalyzer._get_pace_adjustment on two team codes
ProbePaceTeams == {"IND", "BOS", "PHI", "OKC", "WAS", "XXX"}

ProbePaceAdjustment ==
    /\ probe.fn = "none"
    /\ \E a \in ProbePaceTeams, b \in ProbePaceTeams :
        /\ probe' = [fn |-> "_get_pace_adjustment", a |-> a, b |-> b,
                     x |-> MatchupPace(a), y |-> MatchupPace(b),
                     fx |-> _get_pace_adjustment(a),
                     fy |-> _get_pace_adjustment(b),
                     unknown |-> _get_pace_adjustment("XXX")]
        /\ UNCHANGED <<conn, gamelogs_cache, call, analyzed_legs, ret>>
    /\ UNCHANGED <<limiterVars, threadVars>>

\* get_player_stats on the frame the query returns, and the legs built on it
QueryNames ==
    {"Stephen Curry", "STEPHEN CURRY", "stephen curry", "sTePhEn CuRrY",
     "Nikola Jokic", "Bench Player", "Nobody"}
QueryWindows == {NoneVal, 0, 1, 2, 3, 10}

ProbePlayerStats ==
    /\ probe.fn = "none"
    /\ \E rows \in {<< >>, BENCH_LOGS \o GAME_LOGS}, player_name \in QueryNames,
          last_n_games \in QueryWindows :
        /\ probe' = [fn |-> "get_player_stats", rows |-> rows,
                     player_name |-> player_name, last_n_games |-> last_n_games,
                     stats |-> get_player_stats(rows, player_name, last_n_games),
                     leg |-> analyze_leg(rows, player_name, "threes", 2500, "over",
                                         "neutral", NoOpponent),
                     pa_leg |-> analyze_leg(rows, player_name, "points_assists", 28500,
                                            "over", "neutral", NoOpponent),
                     pra_leg |-> analyze_leg(rows, player_name, "points_rebounds_assists",
                                             33500, "over", "neutral", NoOpponent)]
        /\ UNCHANGED <<conn, gamelogs_cache, call, analyzed_legs, ret>>
    /\ UNCHANGED <<limiterVars, threadVars>>

\* StatsCalculator.get_player_season_avg on the season-averages file
ProbeSeasonAvg ==
    /\ probe.fn = "none"
    /\ \E player_name \in {"Stephen Curry", "stephen curry", "Nikola Jokic", "Nobody"} :
        /\ probe' = [fn |-> "get_player_season_avg", player_name |-> player_name,
                     result |-> get_player_season_avg(PLAYERS_CSV, player_name)]
        /\ UNCHANGED <<conn, gamelogs_cache, call, analyzed_legs, ret>>
    /\ UNCHANGED <<limiterVars, threadVars>>

\* the next direct call
\* MatchupAnalyzer._make_recommendation on probabilities around its cut points
ProbeBandProbabilities == {100, 3999, 4000, 4001, 4200, 4499, 4500, 4501, 4700, 4999, 5000, 5200, 5499, 5500, 5999, 6000, 9900}

ProbeMakeRecommendation ==
    /\ probe.fn = "none"
    /\ \E probability \in ProbeBandProbabilities :
        probe' = [fn |-> "_make_recommendation", probability |-> probability,
                  result |-> MatchupAnalyzer_make_recommendation(probability)]
    /\ UNCHANGED <<conn, gamelogs_cache, call, analyzed_legs, ret>>
    /\ UNCHANGED <<limiterVars, threadVars>>

\* ParlayAnalyzer.analyze_leg called twice in a row with the same arguments on the
\* same analyzer: the first call may find the cache not yet loaded
TwicePlayers == {"Stephen Curry", "Luka Doncic", "Nikola Jokic", "Nobody"}
TwiceStatTypes == {"threes", "turnovers", "points"}

ProbeLegTwice ==
    /\ probe.fn = "none"
    /\ \E player \in TwicePlayers, stat_type \in TwiceStatTypes, bet_type \in BetTypes,
          location \in Locations, opponent \in Opponents :
        LET rows1 == gamelogs(gamelogs_cache, conn)
            cache1 == [loaded |-> TRUE, rows |-> rows1]
            rows2 == gamelogs(cache1, conn)
        IN  /\ probe' = [fn |-> "analyze_leg_twice",
                         player |-> player, stat_type |-> stat_type,
                         first_loaded |-> ~gamelogs_cache.loaded,
                         first |-> analyze_leg(rows1, player, stat_type, 2500, bet_type,
                                               location, opponent),
                         second |-> analyze_leg(rows2, player, stat_type, 2500, bet_type,
                                                location, opponent)]
            /\ gamelogs_cache' = cache1
    /\ UNCHANGED <<conn, call, analyzed_legs, ret>>
    /\ UNCHANGED <<limiterVars, threadVars>>

ProbeReset ==
    /\ probe.fn # "none"
    /\ probe' = [fn |-> "none"]
    /\ UNCHANGED <<conn, gamelogs_cache, call, analyzed_legs, ret>>
    /\ UNCHANGED <<limiterVars, threadVars>>

NextProb ==
    \/ ProbeProbNormal
    \/ ProbePredict
    \/ ProbeCombine
    \/ ProbeParlayRecommendation
    \/ ProbeLeg
    \/ ProbeDefenseFactor
    \/ ProbeDefensiveAdjustment
    \/ ProbeLegContext
    \/ ProbeMatchupEvaluate
    \/ ProbeMatchupLeg
    \/ ProbePaceAdjustment
    \/ ProbePlayerStats
    \/ ProbeSeasonAvg
    \/ ProbeMakeRecommendation
    \/ ProbeLegTwice
    \/ ProbeReset

SpecProb == Init /\ [][NextProb]_vars

-----------------------------------------------------------------------------
(* The API handlers and the usage limiter *)

MaxTicks == 11

\* how often the clock has moved since the start
TicksSoFar(t) == (t.day - 1) * Len(DAY_TRACK) + t.idx - 1

\* the clock moves to the next instant of the track, or to the next midnight
CanTick == TicksSoFar(now) < MaxTicks

NextTime(t) ==
    IF t.idx < Len(DAY_TRACK) THEN [t EXCEPT !.idx = t.idx + 1]
    ELSE [day |-> t.day + 1, idx |-> 1]

Tick ==
    /\ CanTick
    /\ now' = NextTime(now)
    /\ UNCHANGED <<usage, request, uses>>
    /\ UNCHANGED <<analyzerVars, threadVars>>

\* the time of the recorded use becomes the user's last use
Used(user_id, t) == [uses EXCEPT ![user_id] = Timestamp(t)]

\* usage_limiter.py:180-196: check, and record the use when the check allows it;
\* the clock may have moved on between the two calls
UseLimiter ==
    \E slow \in BOOLEAN :
        LET user_id == "test_session_12345"
            can_use == check_can_analyze(usage, user_id, IsAuthenticated(user_id), now)
            later == IF slow THEN NextTime(now) ELSE now
        IN  /\ request.user = user_id
            /\ slow => CanTick
            /\ request' = [route |-> "limiter", user |-> user_id, can_use |-> can_use,
                           checked_at |-> now,
                           status |-> IF can_use.allowed THEN 200 ELSE 429]
            /\ IF can_use.allowed
               THEN /\ usage' = record_usage(usage, user_id, later)
                    /\ uses' = Used(user_id, later)
                    /\ now' = later
               ELSE UNCHANGED <<usage, uses, now>>
            /\ UNCHANGED <<analyzerVars, threadVars>>

\* What a handler leaves in the usage files: nothing new after a 429, after an
\* exception of the analysis (500) or an error dict (404 / 400), one use otherwise
\* A slip: the use is recorded before the analysis is looked at
AfterRequest_recorded_first(files, user_id, can_use, result, t) ==
    IF ~can_use.allowed THEN files ELSE record_usage(files, user_id, t)

\* routes.py:47-80 and 120-152
AfterRequest(files, user_id, can_use, result, t) ==
    IF ~can_use.allowed THEN files
    ELSE IF Has(result, "raised") THEN files
    ELSE IF Has(result, "error") THEN files
    ELSE record_usage(files, user_id, t)

\* the status of the response; error_status is 404 for a leg, 400 for a parlay
StatusOf(can_use, result, error_status) ==
    IF ~can_use.allowed THEN 429
    ELSE IF Has(result, "raised") THEN 500
    ELSE IF Has(result, "error") THEN error_status
    ELSE 200

\* LegInput objects as the handlers receive them.  The pattern of LegInput.stat_type
\* admits "points" and "three_p"; "threes" and "turnovers" are the names the
\* analyzer resolves.
ApiLeg(player, stat_type, location, opponent) ==
    [player |-> player, stat_type |-> stat_type, line |-> 2500, bet_type |-> "over",
     location |-> location, opponent |-> opponent]

ApiLegs ==
    { ApiLeg("Stephen Curry", "threes", NoLocation, "BOS"),
      ApiLeg("Stephen Curry", "points", "away", NoOpponent),
      ApiLeg("Nobody", "threes", "home", "BOS") }

\* leg.location or 'neutral'
LocationOr(location) == IF location = NoLocation THEN "neutral" ELSE location

\* the part of both handlers after the analysis
Respond(route, can_use, result, error_status, later) ==
    LET user_id == "test_user"
        status == StatusOf(can_use, result, error_status)
    IN  /\ request' = [route |-> route, user |-> user_id, can_use |-> can_use,
                       checked_at |-> now, status |-> status]
        /\ usage' = AfterRequest(usage, user_id, can_use, result, later)
        /\ uses' = IF status = 200 THEN Used(user_id, later) ELSE uses
        /\ now' = IF can_use.allowed THEN later ELSE now
        /\ gamelogs_cache' = IF can_use.allowed
                             THEN [loaded |-> TRUE, rows |-> gamelogs(gamelogs_cache, conn)]
                             ELSE gamelogs_cache

\* POST /analyze-leg (routes.py:23-103); the handler has no await, so it runs to its
\* end before the event loop starts another one
RouteAnalyzeLeg ==
    \E leg \in ApiLegs, slow \in BOOLEAN :
        LET user_id == "test_user"
            can_use == check_can_analyze(usage, user_id, TRUE, now)
            later == IF slow THEN NextTime(now) ELSE now
            result == analyze_leg(gamelogs(gamelogs_cache, conn), leg.player, leg.stat_type,
                                  leg.line, leg.bet_type, LocationOr(leg.location),
                                  leg.opponent)
        IN  /\ request.user = user_id
            /\ slow => CanTick
            /\ Respond("analyze-leg", can_use, result, 404, later)
            /\ UNCHANGED <<conn, call, analyzed_legs, ret, probe, threadVars>>

\* routes.py:125-135: the dicts handed to analyze_parlay
LegsData(legs) ==
    [i \in 1..Len(legs) |->
        [player |-> legs[i].player, stat_type |-> legs[i].stat_type, line |-> legs[i].line,
         bet_type |-> legs[i].bet_type, location |-> LocationOr(legs[i].location),
         opponent |-> legs[i].opponent]]

\* ParlayAnalyzer.analyze_parlay as one call
analyze_parlay(rows, legs) ==
    LET analyzed == [i \in 1..Len(legs) |-> AnalyzeOne(rows, legs[i], i)]
        raising == {i \in 1..Len(legs) : Has(analyzed[i], "raised")}
    IN  IF raising # {}
        THEN [raised |-> analyzed[CHOOSE i \in raising : \A j \in raising : i <= j].raised]
        ELSE ParlayResult(legs, analyzed)

\* ParlayInput.legs: min_items = 1
ApiParlays ==
    { << ApiLeg("Nobody", "threes", NoLocation, NoOpponent),
         ApiLeg("Stephen Curry", "turnovers", "away", NoOpponent) >>,
      << ApiLeg("Stephen Curry", "points", NoLocation, NoOpponent),
         ApiLeg("Nobody", "threes", "home", "BOS") >> }

\* POST /analyze-parlay (routes.py:106-163)
RouteAnalyzeParlay ==
    \E legs \in ApiParlays, slow \in BOOLEAN :
        LET can_use == check_can_analyze(usage, "test_user", TRUE, now)
            later == IF slow THEN NextTime(now) ELSE now
            result == analyze_parlay(gamelogs(gamelogs_cache, conn), LegsData(legs))
        IN  /\ request.user = "test_user"
            /\ slow => CanTick
            /\ Respond("analyze-parlay", can_use, result, 400, later)
            /\ UNCHANGED <<conn, call, analyzed_legs, ret, probe, threadVars>>

NextApi ==
    \/ Tick
    \/ UseLimiter
    \/ RouteAnalyzeLeg
    \/ RouteAnalyzeParlay

SpecApi == Init /\ [][NextApi]_vars

-----------------------------------------------------------------------------
(* Leg evaluations of several threads on the one analyzer.  A thread may be     *)
(* preempted at every access of the gamelogs property; the handlers of          *)
(* routes.py are coroutines without an await, so the interleavings here include *)
(* every one the application can produce.  Nothing in the repository writes to  *)
(* game_logs: the table is the same at every load.                              *)

ConcRequests ==
    { [player |-> "Stephen Curry", stat_type |-> "threes", line |-> 3500,
       bet_type |-> "over", location |-> "home", opponent |-> "BOS"],
      [player |-> "Luka Doncic", stat_type |-> "points", line |-> 24500,
       bet_type |-> "over", location |-> "away", opponent |-> NoOpponent],
      [player |-> "Nobody", stat_type |-> "threes", line |-> 2500,
       bet_type |-> "under", location |-> "neutral", opponent |-> NoOpponent],
      [player |-> "Nikola Jokic", stat_type |-> "threes", line |-> 1500,
       bet_type |-> "over", location |-> NoLocation, opponent |-> NoOpponent] }

\* get_player_stats reads self.gamelogs at lines 140, 142, 147 and 148
GAMELOGS_READS == 4

\* A load that adds the frame it read to the frame already cached
CacheAfterLoad_appending(cache, df) == [loaded |-> TRUE, rows |-> (IF cache.loaded THEN cache.rows ELSE << >>) \o df]

\* line 90: self._gamelogs_cache = self._load_from_database()
CacheAfterLoad(cache, df) == [loaded |-> TRUE, rows |-> df]

\* the property returns a frame to get_player_stats
ReadFrame(th, rows) ==
    LET reads == Append(th.reads, rows)
    IN  [th EXCEPT !.reads = reads,
                   !.pos = IF Len(reads) = GAMELOGS_READS THEN "stats" ELSE "access"]

\* line 147-148: a boolean mask built from one frame cannot index a longer one
MaskUnalignable(reads) == Len(reads[4]) < Len(reads[3])

\* get_player_stats on the frames its four accesses returned: line 142 tests the
\* second, lines 147-148 index the third by the mask built from the fourth
get_player_stats_of(reads, player_name, last_n_games) ==
    IF reads[2] = << >> THEN EmptyDict
    ELSE IF reads[3] = reads[4] THEN get_player_stats(reads[3], player_name, last_n_games)
    ELSE LET paired == [i \in 1..Len(reads[3]) |-> [row |-> reads[3][i], named |-> reads[4][i].player_name]]
             chosen == SelectSeq(paired, LAMBDA p : Lower(p.named) = Lower(player_name))
             player_games == [i \in 1..Len(chosen) |-> [chosen[i].row EXCEPT !.player_name = player_name]]
         IN  get_player_stats(player_games, player_name, last_n_games)

\* parlay_analyzer.py lines 112-148: the result dict
LegResultOf(req, season_stats, adjustments, prediction, recent_stats) ==
    LET mean_key == Key(StatKey(req.stat_type), "mean")
        std_key == Key(StatKey(req.stat_type), "std")
        player_stat_avg == season_stats[mean_key]
        player_stat_std == IF Has(season_stats, std_key) THEN season_stats[std_key]
                           ELSE Times03(player_stat_avg)
        recent_avg == IF Truthy(recent_stats) /\ Has(recent_stats, mean_key)
                      THEN recent_stats[mean_key] ELSE player_stat_avg
        is_over == Lower(req.bet_type) = "over"
        hit_probability == IF is_over THEN prediction.prob_over ELSE prediction.prob_under
        edge == IF is_over THEN prediction.edge_over ELSE prediction.edge_under
        result == [player |-> req.player,
                   stat_type |-> req.stat_type,
                   line |-> req.line,
                   bet_type |-> Upper(req.bet_type),
                   season_avg |-> RoundDiv(player_stat_avg, 10),
                   season_std |-> Round2(player_stat_std),
                   recent_avg |-> RoundDiv(recent_avg, 10),
                   predicted_value |-> prediction.adjusted_mean,
                   probability |-> hit_probability,
                   edge |-> edge,
                   confidence_80 |-> prediction.confidence_80,
                   recommendation |-> LegRecommendation(hit_probability),
                   games_analyzed |-> season_stats[Key("games_analyzed", "")]]
    IN  IF Truthy(adjustments)
        THEN result @@ [adjustments_applied |-> adjustments,
                        adjustment_summary |-> prediction.adjustments_summary]
        ELSE result

Terminal == {"done", "failed", "raised"}

\* analyze_leg is entered (line 48)
StartLeg(t) ==
    /\ threads[t].pos = "idle"
    /\ \E req \in ConcRequests :
        threads' = [threads EXCEPT ![t] =
                       [pos |-> "access", req |-> req, stage |-> "season", reads |-> << >>,
                        loaded_here |-> FALSE, trace |-> << "received" >>,
                        season_stats |-> EmptyDict, adjustments |-> EmptyDict,
                        prediction |-> EmptyDict, result |-> EmptyDict]]
    /\ UNCHANGED <<analyzerVars, limiterVars>>

\* enhanced_stats_calculator.py line 89: the property tests the cache, and
\* line 93 returns it when it is set
AccessGamelogs(t) ==
    /\ threads[t].pos = "access"
    /\ threads' = [threads EXCEPT ![t] =
                      IF gamelogs_cache.loaded THEN ReadFrame(@, gamelogs_cache.rows)
                      ELSE [@ EXCEPT !.pos = "load"]]
    /\ UNCHANGED <<analyzerVars, limiterVars>>

\* line 90: the query runs and its frame is assigned to the cache
LoadGamelogs(t) ==
    /\ threads[t].pos = "load"
    /\ gamelogs_cache' = CacheAfterLoad(gamelogs_cache, load_from_database(conn))
    /\ threads' = [threads EXCEPT ![t] = [@ EXCEPT !.pos = "return", !.loaded_here = TRUE]]
    /\ UNCHANGED <<conn, call, analyzed_legs, ret, probe, limiterVars>>

\* line 93 after a load: the property returns what the cache holds now
ReturnGamelogs(t) ==
    /\ threads[t].pos = "return"
    /\ threads' = [threads EXCEPT ![t] = ReadFrame(@, gamelogs_cache.rows)]
    /\ UNCHANGED <<analyzerVars, limiterVars>>

\* parlay_analyzer.py lines 51-77: the season statistics and the two early returns
ResolveBaseline(t) ==
    /\ threads[t].pos = "stats"
    /\ threads[t].stage = "season"
    /\ LET th == threads[t]
           mean_key == Key(StatKey(th.req.stat_type), "mean")
       IN  threads' = [threads EXCEPT ![t] =
               IF th.reads[2] # << >> /\ MaskUnalignable(th.reads)
               THEN [th EXCEPT !.pos = "raised", !.result = [raised |-> "IndexingError"]]
               ELSE LET season_stats == get_player_stats_of(th.reads, th.req.player, NoneVal)
                    IN  IF ~Truthy(season_stats)
                        THEN [th EXCEPT !.pos = "failed",
                                        !.result = [error |-> [msg |-> "Player not found",
                                                               arg |-> th.req.player]]]
                        ELSE IF ~Has(season_stats, mean_key)
                        THEN [th EXCEPT !.pos = "failed",
                                        !.result = [error |-> [msg |-> "Invalid stat type",
                                                               arg |-> th.req.stat_type]]]
                        ELSE [th EXCEPT !.pos = "adjust", !.season_stats = season_stats,
                                        !.trace = Append(@, "baseline-resolved")]]
    /\ UNCHANGED <<analyzerVars, limiterVars>>

\* lines 79-102: the adjustments dict; get_location_factor raises on None
Adjust(t) ==
    /\ threads[t].pos = "adjust"
    /\ LET th == threads[t]
       IN  threads' = [threads EXCEPT ![t] =
                          IF th.req.location = NoLocation
                          THEN [th EXCEPT !.pos = "raised",
                                          !.result = [raised |-> "AttributeError"]]
                          ELSE [th EXCEPT !.pos = "score",
                                          !.adjustments = BuildAdjustments(th.req.location,
                                                                           th.req.opponent),
                                          !.trace = Append(@, "adjusted")]]
    /\ UNCHANGED <<analyzerVars, limiterVars>>

\* lines 104-110: predict_with_confidence applies the adjustments and scores
Score(t) ==
    /\ threads[t].pos = "score"
    /\ LET th == threads[t]
           mean_key == Key(StatKey(th.req.stat_type), "mean")
           std_key == Key(StatKey(th.req.stat_type), "std")
           player_stat_avg == th.season_stats[mean_key]
           player_stat_std == IF Has(th.season_stats, std_key) THEN th.season_stats[std_key]
                              ELSE Times03(player_stat_avg)
       IN  threads' = [threads EXCEPT ![t] =
                          [th EXCEPT !.pos = "access", !.stage = "recent", !.reads = << >>,
                                     !.prediction = predict_with_confidence(player_stat_avg,
                                                        th.req.line, player_stat_std,
                                                        th.adjustments),
                                     !.trace = Append(@, "scored")]]
    /\ UNCHANGED <<analyzerVars, limiterVars>>

\* lines 112-148: the recent statistics and the result
ReturnLeg(t) ==
    /\ threads[t].pos = "stats"
    /\ threads[t].stage = "recent"
    /\ LET th == threads[t]
       IN  threads' = [threads EXCEPT ![t] =
               IF th.reads[2] # << >> /\ MaskUnalignable(th.reads)
               THEN [th EXCEPT !.pos = "raised", !.result = [raised |-> "IndexingError"]]
               ELSE [th EXCEPT !.pos = "done",
                               !.result = LegResultOf(th.req, th.season_stats, th.adjustments,
                                              th.prediction,
                                              get_player_stats_of(th.reads, th.req.player, 10))]]
    /\ UNCHANGED <<analyzerVars, limiterVars>>

\* the caller has the outcome; the thread takes the next request
FinishLeg(t) ==
    /\ threads[t].pos \in Terminal
    /\ threads' = [threads EXCEPT ![t] = IdleThread]
    /\ UNCHANGED <<analyzerVars, limiterVars>>

NextConc ==
    \/ \E t \in Threads : StartLeg(t)
    \/ \E t \in Threads : AccessGamelogs(t)
    \/ \E t \in Threads : LoadGamelogs(t)
    \/ \E t \in Threads : ReturnGamelogs(t)
    \/ \E t \in Threads : ResolveBaseline(t)
    \/ \E t \in Threads : Adjust(t)
    \/ \E t \in Threads : Score(t)
    \/ \E t \in Threads : ReturnLeg(t)
    \/ \E t \in Threads : FinishLeg(t)

SpecConc == Init /\ [][NextConc]_vars

-----------------------------------------------------------------------------
(* Properties of the probability model and of the parlay arithmetic *)

InRange(p) == p # NaN /\ PROB_MIN <= p /\ p <= PROB_MAX

\* C5: every probability calculate_probability_normal returns, for either
\* direction and however far the line is from the mean, and so every
\* probability of a prediction and of a successful leg result, lies in
\* [0.01, 0.99].
C5_ProbabilityClamped ==
    /\ probe.fn = "calculate_probability_normal" =>
           InRange(probe.over) /\ InRange(probe.under)
    /\ probe.fn = "predict_with_confidence" =>
           InRange(probe.prediction.prob_over) /\ InRange(probe.prediction.prob_under)
    /\ (probe.fn = "analyze_leg" /\ Has(probe.result, "probability")) =>
           InRange(probe.result.probability)

\* the line lies 20 standard deviations above the mean and the clamp is active
C5_Witness ==
    /\ probe.fn = "calculate_probability_normal"
    /\ probe.mean = 0
    /\ probe.std = 1000
    /\ probe.line = 200000
    /\ probe.over = PROB_MIN
    /\ probe.under = PROB_MAX

\* C6: the over and the under probability of the same (mean, std, line) sum
\* to 1, for calculate_probability_normal called in both directions and for
\* predict_with_confidence's prob_over and prob_under, whose edges sum to 0.
C6_OverUnderSumToOne ==
    /\ probe.fn = "calculate_probability_normal" => probe.over + probe.under = P
    /\ probe.fn = "predict_with_confidence" =>
           /\ probe.prediction.prob_over + probe.prediction.prob_under = P
           /\ probe.prediction.edge_over + probe.prediction.edge_under = 0

\* the std the claim substitutes: max(mean * 0.3, 0.1)
SubstituteStd(mean) == IF Times03(mean) > STD_FLOOR THEN Times03(mean) ELSE STD_FLOOR

\* the std is zero, missing, not finite or below the floor
NeedsSubstitute(std) == std = NoneVal \/ std = NaN \/ std < STD_FLOOR

\* C7: the z-score is never divided by zero, and whenever the supplied std
\* is zero, missing, not finite or below the floor of 0.1 the divisor is
\* max(mean * 0.3, 0.1).
C7_StdSubstituted ==
    /\ probe.fn = "calculate_probability_normal" =>
           /\ probe.divisor # 0
           /\ NeedsSubstitute(probe.std) => probe.divisor = SubstituteStd(probe.mean)
    /\ probe.fn = "predict_with_confidence" =>
           /\ probe.divisor # 0
           /\ NeedsSubstitute(probe.variance) =>
                  probe.divisor = SubstituteStd(probe.adjusted_mean)

RECURSIVE Power(_, _)
\* (p / 10^4) ^ n, exactly
Power(p, n) == IF n = 0 THEN One ELSE MulProb(Power(p, n - 1), p)

\* the payout multiplier, in hundredths, for v valid legs
Payout(v) == IF v \in 1..10 THEN ODDS_MAP[v] ELSE 100 * Pow2(v)

\* C9: in every parlay result with v valid legs the payout is the table
\* entry for v when 1 <= v <= 10 and 2^v otherwise, whatever the number of
\* legs submitted, and expected_value is combined probability times payout
\* minus one (to the three decimals the result carries).
C9_PayoutAndExpectedValue ==
    (probe.fn = "analyze_parlay" /\ ~Has(probe.result, "error")) =>
        /\ probe.result.valid_legs = probe.valid
        /\ probe.result.num_legs = probe.valid + probe.failed
        /\ probe.result.expected_value =
               RoundExact(MulInt(MulOdds(Power(probe.p, probe.valid),
                                         Payout(probe.valid)), 10)) - 1000
        \* the payout as the result shows it, int((payout - 1) * 100): the doubles
        \* make 90 of the first entry
        /\ probe.result.estimated_odds =
               IF probe.valid = 1 THEN 90 ELSE Payout(probe.valid) - 100

\* eleven valid legs beside a failed one: the count is off the table
C9_Witness ==
    /\ probe.fn = "analyze_parlay"
    /\ probe.valid = 11
    /\ probe.failed = 1
    /\ probe.p = 9900
    /\ probe.result.estimated_odds = 204700

\* the band of the claim for a combined probability c (ten-thousandths)
Band(c, num_legs) ==
    LET threshold == 1500 + (num_legs - 2) * 200
    IN  IF 10 * c >= 15 * threshold THEN "STRONG PLAY"
        ELSE IF c >= threshold THEN "PLAYABLE"
        ELSE IF 10 * c >= 7 * threshold THEN "MARGINAL"
        ELSE "AVOID"

-----------------------------------------------------------------------------
(* Properties of the matchup adjustments *)

\* clamp(1 - (league - rating) / 200, 0.85, 1.15) in ten-thousandths
ClaimedDefenseFactor(league, rating) ==
    PyMax(DEF_MIN, PyMin(DEF_MAX, P - (league - rating) * 5))

\* the defense-factor properties for one league average
DefenseFactorAsClaimed(league) ==
    /\ probe.fx = ClaimedDefenseFactor(league, probe.x)
    /\ DEF_MIN <= probe.fx /\ probe.fx <= DEF_MAX
    /\ probe.x <= probe.y => probe.fx <= probe.fy
    /\ (probe.x < probe.y /\ DEF_MIN < probe.fx /\ probe.fy < DEF_MAX)
           => probe.fx < probe.fy
    /\ probe.x = league => probe.fx = P
    /\ probe.unknown = P

\* C12: every defense factor the code computes (calculate_defense_factor of
\* team_stats and MatchupAnalyzer._get_defensive_adjustment) is
\* clamp(1 - (leagueAvg - rating) / 200, 0.85, 1.15): within [0.85, 1.15],
\* non-decreasing in the rating, strictly increasing inside the clamp, and
\* exactly 1.0 at the league average an unknown team code resolves to.
C12_DefenseFactor ==
    /\ probe.fn = "calculate_defense_factor"
           => DefenseFactorAsClaimed(LEAGUE_AVERAGE_DEF_RATING)
    /\ probe.fn = "_get_defensive_adjustment"
           => DefenseFactorAsClaimed(MA_LEAGUE_DEF_RATING)

\* the location multiplier the specification gives, in thousandths
ClaimedLocationFactor(location) ==
    CASE location = "home" -> 1100
      [] location = "away" -> 950
      [] OTHER -> 1000

ClaimedPaceFactor(league, pace) ==
    PyMax(PACE_MIN, PyMin(PACE_MAX, P + SignedRoundDiv((pace - league) * 3000, league)))

\* the adjusted mean of analyze_leg when location, defense and pace all apply
WithPace(baseline, location, opponent) ==
    LET a1 == RoundDiv(baseline * get_location_factor(location), V)
        a2 == RoundDiv(a1 * calculate_defense_factor(get_team_defense(opponent)), P)
    IN  RoundDiv(a2 * ClaimedPaceFactor(LEAGUE_AVERAGE_PACE, get_team_pace(opponent)), P)

\* C14: the pace factor is clamp(1 + (pace - leagueAvg) / leagueAvg * 0.3,
\* 0.95, 1.05), within [0.95, 1.05], non-decreasing in the pace and 1.0 for an
\* unknown team code; and every leg evaluation given an opponent of known
\* pace reports a pace adjustment and its adjusted mean includes that factor.
C14_PaceFactorApplied ==
    /\ probe.fn = "_get_pace_adjustment" =>
           /\ probe.fx = ClaimedPaceFactor(MA_LEAGUE_PACE, probe.x)
           /\ PACE_MIN <= probe.fx /\ probe.fx <= PACE_MAX
           /\ probe.x <= probe.y => probe.fx <= probe.fy
           /\ probe.unknown = P
    /\ (probe.fn = "MatchupEvaluate" /\ probe.opponent \in DOMAIN MatchupAnalyzer_TEAM_PACE) =>
           /\ \E k \in 1..Len(probe.adj.adjustments) :
                  /\ probe.adj.adjustments[k].factor = "Pace"
                  /\ probe.adj.adjustments[k].multiplier =
                         RoundDiv(ClaimedPaceFactor(MA_LEAGUE_PACE,
                                                    MatchupPace(probe.opponent)), 10)
           /\ probe.adj.before_blend =
                  RoundDiv(RoundDiv(probe.season_avg
                                      * _get_defensive_adjustment(probe.opponent,
                                                                  probe.stat_type), P)
                             * ClaimedPaceFactor(MA_LEAGUE_PACE, MatchupPace(probe.opponent)),
                           P)
    /\ (probe.fn = "analyze_leg_context" /\ Has(probe.result, "probability")
          /\ Upper(probe.opponent) \in DOMAIN TEAM_PACE) =>
           /\ Has(probe.result, "adjustments_applied")
           /\ Has(probe.result.adjustments_applied, "pace")
           /\ probe.adjusted_mean = WithPace(probe.baseline, probe.location, probe.opponent)

\* the entries of a list of adjustments that report the matchup history
HistoryEntries(adjustments) ==
    {k \in 1..Len(adjustments) : adjustments[k].factor = "Matchup History"}

RescaledStd(base_std, baseline, adjusted) ==
    IF adjusted = baseline \/ baseline = 0 THEN base_std
    ELSE RoundDiv(base_std * adjusted, baseline)

LocationDescriptions(summary) ==
    {k \in 1..Len(summary.factors) :
        summary.factors[k].text \in {"Home court boost", "Road game penalty"}}

\* every factor analyze_leg applied is in the result with multiplier and description
LegTraceable(result, location, opponent) ==
    /\ Has(result, "adjustments_applied")
    /\ Has(result, "adjustment_summary")
    /\ get_location_factor(location) # NEUTRAL_COURT_FACTOR =>
           /\ Has(result.adjustments_applied, "location")
           /\ result.adjustments_applied.location = get_location_factor(location)
           /\ LocationDescriptions(result.adjustment_summary) # {}
    /\ opponent # NoOpponent =>
           /\ Has(result.adjustments_applied, "defense")
           /\ Has(result.adjustments_applied.defense, "factor")
           /\ Has(result.adjustments_applied.defense, "description")

\* every factor lines 161-206 applied is in the list with multiplier and description
MatchupTraceable(adjustments, opponent, blended) ==
    /\ \A k \in 1..Len(adjustments) :
           /\ Has(adjustments[k], "description")
           /\ adjustments[k].factor # "Matchup History" => Has(adjustments[k], "multiplier")
    /\ \E k \in 1..Len(adjustments) : adjustments[k].factor = "Home/Away"
    /\ opponent # NoOpponent =>
           /\ \E k \in 1..Len(adjustments) : adjustments[k].factor = "Defense"
           /\ \E k \in 1..Len(adjustments) : adjustments[k].factor = "Pace"
    /\ blended => HistoryEntries(adjustments) # {}

\* C17: whenever a successful leg evaluation reports a predicted (adjusted)
\* value different from the season average, the result carries the applied
\* factors, each with its multiplier and a human-readable description, and
\* none of the applied factors is missing.
C17_AdjustmentsTraceable ==
    /\ (probe.fn = "analyze_leg_context" /\ Has(probe.result, "probability")
          /\ probe.result.predicted_value # probe.result.season_avg) =>
           LegTraceable(probe.result, probe.location, probe.opponent)
    /\ (probe.fn = "MatchupEvaluate" /\ Has(probe.result, "adjusted_avg")
          /\ probe.result.adjusted_avg # RoundDiv(probe.result.season_avg, 10)) =>
           MatchupTraceable(probe.result.adjustments, probe.opponent,
                            probe.adj.after_blend # probe.adj.before_blend)

-----------------------------------------------------------------------------
(* Properties of get_player_stats *)

\* the name as the records store it, for the casings the probes ask with
StoredName(player_name) ==
    IF player_name \in {"STEPHEN CURRY", "stephen curry", "sTePhEn CuRrY"}
    THEN "Stephen Curry" ELSE player_name

\* the records of a frame that belong to the player, in the frame's order
RecordsOf(rows, player_name) ==
    SelectSeq(rows, LAMBDA r : r.player_name = StoredName(player_name))

\* a summary without the echo of the name it was asked with
WithoutName(stats) ==
    [k \in DOMAIN stats \ {Key("player_name", "")} |-> stats[k]]

\* C18: get_player_stats finds the same records for any casing of a stored
\* name, and a name with no record yields the empty result, which no summary
\* of a player with records equals (a player whose values are all zero gets
\* a non-empty summary with games_analyzed >= 1); analyze_leg answers
\* 'Player not found' for exactly the names without a record.
C18_CaseInsensitiveAndNotFound ==
    probe.fn = "get_player_stats" =>
        /\ WithoutName(probe.stats) =
               WithoutName(get_player_stats(probe.rows, StoredName(probe.player_name),
                                            probe.last_n_games))
        /\ RecordsOf(probe.rows, probe.player_name) # << >> =>
               /\ Truthy(probe.stats)
               /\ probe.stats[Key("games_analyzed", "")] >= 1
               /\ probe.stats[Key("player_name", "")] = probe.player_name
               /\ ~Has(probe.leg, "error")
        /\ RecordsOf(probe.rows, probe.player_name) = << >> =>
               /\ probe.stats = EmptyDict
               /\ Has(probe.leg, "error")
               /\ probe.leg.error.msg = "Player not found"

\* a mixed-case name found the three records stored under 'Stephen Curry'
C18_Witness ==
    /\ probe.fn = "get_player_stats"
    /\ probe.player_name = "sTePhEn CuRrY"
    /\ probe.last_n_games = NoneVal
    /\ Truthy(probe.stats)
    /\ probe.stats[Key("games_analyzed", "")] = 3
    /\ probe.stats[Key("threes", "mean")] = 4000

\* C19: for every window N a caller supplies, the summary is the one of the
\* first min(N, total) records of the player in most-recent-first order,
\* games_analyzed is that count, and a window holding no record yields the
\* not-found result instead of a summary.
C19_RecentWindowIsPrefix ==
    (probe.fn = "get_player_stats" /\ probe.last_n_games # NoneVal) =>
        LET records == RecordsOf(probe.rows, probe.player_name)
            m == IF probe.last_n_games < Len(records)
                 THEN probe.last_n_games ELSE Len(records)
            window == SubSeq(records, 1, m)
        IN  /\ \A i \in 1..m, j \in (m + 1)..Len(records) :
                   records[i].date >= records[j].date
            /\ WithoutName(probe.stats) =
                   WithoutName(get_player_stats(window, StoredName(probe.player_name),
                                                NoneVal))
            /\ m > 0 => probe.stats[Key("games_analyzed", "")] = m
            /\ m = 0 => probe.stats = EmptyDict

\* the per-game sums of a list of columns over the records that have them all
PerGameSums(records, cols) ==
    LET complete == SelectSeq(records,
                        LAMBDA r : \A k \in 1..Len(cols) : r[cols[k]] # NoneVal)
    IN  [i \in 1..Len(complete) |->
            SumSeq([k \in 1..Len(cols) |-> complete[i][cols[k]]])]

\* some stat of the summary is the mean/std/min/max of the given per-game values
SummarisedAs(stats, values) ==
    \E k \in DOMAIN stats :
        /\ k[2] = "mean"
        /\ \A f \in StatFields : Has(stats, Key(k[1], f))
        /\ stats[Key(k[1], "mean")] = SeriesMean(values)
        /\ stats[Key(k[1], "std")] = SeriesStd(values)
        /\ stats[Key(k[1], "min")] = MinSeq(values) * V
        /\ stats[Key(k[1], "max")] = MaxSeq(values) * V

\* the leg succeeded and its baseline is the mean of the given per-game values
EvaluatedAgainst(leg, values) ==
    /\ Has(leg, "probability")
    /\ leg.season_avg = RoundDiv(SeriesMean(values), 10)
    /\ leg.season_std = Round2(SeriesStd(values))

\* C20: for a player with game records the summary holds, for points+assists
\* and for points+rebounds+assists, the mean/std/min/max of the per-game sums
\* of the components, and a leg requesting points_assists or
\* points_rebounds_assists is evaluated against that composite baseline.
C20_CompositeFromPerGameSums ==
    (probe.fn = "get_player_stats" /\ probe.last_n_games = NoneVal
       /\ RecordsOf(probe.rows, probe.player_name) # << >>) =>
        LET records == RecordsOf(probe.rows, probe.player_name)
            pa == PerGameSums(records, << "pts", "ast" >>)
            pra == PerGameSums(records, << "pts", "trb", "ast" >>)
        IN  /\ SummarisedAs(probe.stats, pa)
            /\ SummarisedAs(probe.stats, pra)
            /\ EvaluatedAgainst(probe.pa_leg, pa)
            /\ EvaluatedAgainst(probe.pra_leg, pra)

-----------------------------------------------------------------------------
(* Properties of the leg result *)

\* the keys of the dict of lines 120-139 and the two of lines 142-144
LegResultKeys ==
    {"player", "stat_type", "line", "bet_type", "season_avg", "season_std", "recent_avg",
     "predicted_value", "probability", "edge", "confidence_80", "recommendation",
     "games_analyzed", "adjustments_applied", "adjustment_summary"}

\* the result says, in a field of its own, that a default std was substituted
FallbackFlagged(result) == DOMAIN result \ LegResultKeys # {}

\* the player of the probed call has exactly one game with the stat recorded
OneGameSample ==
    LET stats == get_player_stats(GAME_LOGS, probe.player, NoneVal)
    IN  /\ Has(stats, Key(probe.stat_type, "std"))
        /\ stats[Key("games_analyzed", "")] = 1
        /\ stats[Key(probe.stat_type, "std")] = NaN

\* C21: a leg of a player with exactly one game (sample std undefined) does not
\* fail, is scored with the coefficient-of-variation std (0.3 x mean, rescaled with
\* the mean as every std is), and its result carries a flag saying so.
C21_FallbackFlagged ==
    (probe.fn = "analyze_leg_context" /\ OneGameSample) =>
        /\ Has(probe.result, "probability")
        /\ ~Has(probe.result, "error")
        /\ probe.base_std = Times03(probe.baseline)
        /\ FallbackFlagged(probe.result)

\* the bands as published: >= 0.60, >= 0.55, (0.45, 0.55), (0.40, 0.45], <= 0.40
PublishedBand(p) ==
    IF p >= 6000 THEN "STRONG HIT"
    ELSE IF p >= 5500 THEN "LEAN HIT"
    ELSE IF p > 4500 THEN "TOSS-UP"
    ELSE IF p > 4000 THEN "LEAN MISS"
    ELSE "STRONG MISS"

\* C22: the five-band recommendation of a leg is the published band of its
\* probability, for every probability.
C22_FiveBands ==
    probe.fn = "_make_recommendation" => probe.result = PublishedBand(probe.probability)

-----------------------------------------------------------------------------
(* Properties of the order of the leg results *)

\* C24: the `legs` list of a value analyze_parlay returns is as long as the
\* submitted list, and its i-th entry is the evaluation (result or tagged
\* error) of the i-th submitted leg.
C24_LegsInInputOrder ==
    ret.kind = "parlay" =>
        /\ Len(ret.value.legs) = Len(call.legs)
        /\ \A i \in 1..Len(call.legs) :
               /\ ret.value.legs[i] = ExpectedResults[i]
               /\ Has(ret.value.legs[i], "error") => ret.value.legs[i].leg_number = i
               /\ Has(ret.value.legs[i], "probability") =>
                      ret.value.legs[i].player = call.legs[i].player

\* three legs came back, a failing one between two different succeeding ones
C24_Witness ==
    /\ ret.kind = "parlay"
    /\ Len(call.legs) = 3
    /\ Failing = {2}
    /\ Succeeding = {1, 3}
    /\ call.legs[1].player # call.legs[3].player

-----------------------------------------------------------------------------
(* Properties of the usage limiter and of the API handlers *)

CountToday(files, user_id) == Get(_load_usage(files, user_id), "count_today", 0)

\* the day the user's file was last reset on, None without a file
LastReset(files, user_id) == Get(_load_usage(files, user_id), "last_reset", NoneVal)

\* this step is a call of the limiter or of a handler by the user
CalledBy(user_id) == request' # request /\ request'.user = user_id

\* C26: with every use recorded after its own allowed check, a user's
\* count_today never exceeds the daily limit (5 anonymous, 7 authenticated); a
\* check made on the day the limit was reached answers allowed = False,
\* daily_limit_reached, remaining 0; on a later day the count starts from 0 again.
C26_DailyLimit ==
    [][\A u \in Users :
         LET limit == DailyLimit(IsAuthenticated(u))
         IN  /\ CountToday(usage', u) <= limit
             /\ (CalledBy(u) /\ LastReset(usage, u) = Today(now)
                    /\ CountToday(usage, u) >= limit) =>
                    /\ request'.can_use.allowed = FALSE
                    /\ request'.can_use.reason = "daily_limit_reached"
                    /\ request'.can_use.remaining = 0
                    /\ usage' = usage
             /\ (CalledBy(u) /\ LastReset(usage, u) # NoneVal
                    /\ LastReset(usage, u) < Today(now)) =>
                    /\ request'.can_use.allowed
                    /\ request'.can_use.analyses_today = 0
             /\ (usage' # usage /\ request'.user = u /\ LastReset(usage, u) # NoneVal
                    /\ LastReset(usage, u) < Today(now')) =>
                    CountToday(usage', u) = 1
      ]_vars

\* the seventh use of the day was recorded and the next check was turned down
C26_Witness ==
    /\ request.route # "none"
    /\ request.status = 429
    /\ request.can_use.reason = "daily_limit_reached"
    /\ CountToday(usage, request.user) = AUTHENTICATED_DAILY_LIMIT

\* C27: two consecutive recorded uses of a user are at least 300 seconds apart,
\* and a check made less than 300 seconds after the user's last recorded use
\* answers allowed = False with reason cooldown_active.
C27_Cooldown ==
    [][\A u \in Users :
         /\ (uses'[u] # uses[u] /\ uses[u] # NoneVal) =>
                uses'[u] - uses[u] >= MINIMUM_INTERVAL_SECONDS
         /\ (CalledBy(u) /\ uses[u] # NoneVal
                /\ Timestamp(now) - uses[u] < MINIMUM_INTERVAL_SECONDS) =>
                /\ request'.can_use.allowed = FALSE
                /\ request'.can_use.reason = "cooldown_active"
      ]_vars

\* the user's file after exactly one more use, recorded at the time `t`
OneUseRecorded(before, after, t) ==
    /\ after.total_lifetime_uses = Get(before, "total_lifetime_uses", 0) + 1
    /\ after.last_use_timestamp = Timestamp(t)
    /\ after.last_reset = Today(t)
    /\ after.count_today = IF Get(before, "last_reset", NoneVal) = Today(t)
                           THEN before.count_today + 1 ELSE 1

\* C30: a request to analyze-leg or analyze-parlay that is answered with 429, 404,
\* 400 or 500 leaves the usage files as they were; one answered with a result
\* records exactly one use; and the user's file changes in no other step.
C30_UsageFrame ==
    [][LET before == _load_usage(usage, "test_user")
           after == _load_usage(usage', "test_user")
       IN  /\ (request' # request /\ request'.route \in {"analyze-leg", "analyze-parlay"}) =>
                  IF request'.status = 200
                  THEN OneUseRecorded(before, after, now')
                  ELSE usage' = usage
           /\ after # before =>
                  /\ request' # request
                  /\ request'.route \in {"analyze-leg", "analyze-parlay"}
                  /\ request'.status = 200
      ]_vars

\* a parlay without a valid leg was answered 400 after two uses had been recorded
C30_Witness ==
    /\ request.route = "analyze-parlay"
    /\ request.status = 400
    /\ CountToday(usage, "test_user") = 2
    /\ uses["test_user"] # NoneVal

-----------------------------------------------------------------------------
(* Properties of the order of the adjustments *)

\* the place of a factor in the published order
OrderRank(factor) ==
    CASE factor = "Home/Away" -> 1
      [] factor = "Defense" -> 2
      [] factor = "Pace" -> 3
      [] factor = "Matchup History" -> 4

\* location, defense and pace multiplied in, then the blend with the history
InPublishedOrder(season_avg, location_factor, defense_factor, pace_factor, history) ==
    LET a1 == RoundDiv(season_avg * location_factor, P)
        a2 == RoundDiv(a1 * defense_factor, P)
        a3 == RoundDiv(a2 * pace_factor, P)
        weight == HistoryWeight(history.games)
    IN  IF history.games > 0
        THEN RoundDiv(a3 * (P - weight) + history.avg * weight, P)
        ELSE a3

C28_TwoOutcomes ==
    \A t \in Threads : threads[t].pos \in Terminal =>
        \/ /\ threads[t].pos = "done"
           /\ {"probability", "edge", "confidence_80", "recommendation"} \subseteq DOMAIN threads[t].result
           /\ ~Has(threads[t].result, "error")
           /\ threads[t].trace = << "received", "baseline-resolved", "adjusted", "scored" >>
        \/ /\ threads[t].pos = "failed"
           /\ Has(threads[t].result, "error")
           /\ ~Has(threads[t].result, "probability")
           /\ threads[t].trace = << "received" >>
           /\ threads[t].adjustments = EmptyDict
           /\ threads[t].prediction = EmptyDict

====
